---- MODULE Spec2Model ----
(***************************************************************************)
(* A model of the Core IL runtime library for Rust (coreil_runtime.rs).    *)
(*                                                                         *)
(* The runtime has no global state: its state is the set of container      *)
(* payloads behind the Rc<RefCell<..>> handles that the compiled program   *)
(* holds.  The model keeps                                                 *)
(*   objs   the payload behind every handle address,                       *)
(*   regs   the Values the calling program holds (its variables),          *)
(*   res    the last runtime call: its name, arguments and outcome,        *)
(*   prev   the store as it was before the last call (history variable),   *)
(*   log    the calls made so far (history variable of a specification).   *)
(* Every runtime function is an operator that takes the store and returns  *)
(* an outcome [ok, val, objs]; ok = FALSE is a panic, and objs is then the *)
(* store as it is at the moment of the panic.                              *)
(***************************************************************************)
EXTENDS Integers, Sequences, FiniteSets, TLC

VARIABLES objs, regs, res, prev, log

vars == <<objs, regs, res, prev, log>>

(***************************************************************************)
(* Values (enum Value).  Scalars carry their payload, containers carry the *)
(* address of the shared payload (the Rc pointer).                         *)
(*   Int:   n is the i64; an Int beyond the range of the model checker's   *)
(*          integers is written [t |-> "Int", p53 |-> k] and stands for    *)
(*          2^53 + k.                                                      *)
(*   Float: c is the class ("fin", "inf", "ninf", "nan"); a finite float   *)
(*          carries h, its value counted in halves (h = 3 is 1.5), or      *)
(*          p53 = k for 2^53 + k (k even), or e = 20 for 1e20.             *)
(*   Str:   s is the sequence of characters.                               *)
(***************************************************************************)
NoneV == [t |-> "None"]
BoolV(b) == [t |-> "Bool", b |-> b]
IntV(n) == [t |-> "Int", n |-> n]
BigIntV(k) == [t |-> "Int", p53 |-> k]
FloatV(h) == [t |-> "Float", c |-> "fin", h |-> h]
BigFloatV(k) == [t |-> "Float", c |-> "fin", p53 |-> k]
HugeFloatV == [t |-> "Float", c |-> "fin", e |-> 20]
InfV == [t |-> "Float", c |-> "inf"]
NegInfV == [t |-> "Float", c |-> "ninf"]
NaNV == [t |-> "Float", c |-> "nan"]
StrV(s) == [t |-> "Str", s |-> s]
TupleV(items) == [t |-> "Tuple", items |-> items]
Handle(tag, a) == [t |-> tag, ref |-> a]
Unit == [t |-> "Unit"]

HasField(v, f) == f \in DOMAIN v

ContainerTags == {"Array", "Map", "Set", "Record", "Deque", "Heap"}

\* An outcome of a runtime call: a return value, or a panic.
Ok(val, o) == [ok |-> TRUE, val |-> val, objs |-> o]
Panic(o) == [ok |-> FALSE, val |-> Unit, objs |-> o]

(***************************************************************************)
(* f64 values as used by to_numeric and partial_cmp.                       *)
(***************************************************************************)
\* n as f64 for an Int of the form 2^53 + k: the 53-bit significand keeps
\* only even k, a tie rounds to the even significand.
RoundP53(k) == IF k % 2 = 0 THEN k
               ELSE IF ((k - 1) \div 2) % 2 = 0 THEN k - 1 ELSE k + 1

is_numeric(v) == v.t \in {"Int", "Float", "Bool"}

\* to_numeric on a numeric value (the caller checks is_numeric: any other
\* variant panics).
to_numeric(v) ==
    IF v.t = "Int" THEN (IF HasField(v, "p53") THEN BigFloatV(RoundP53(v.p53))
                         ELSE FloatV(2 * v.n))
    ELSE IF v.t = "Bool" THEN (IF v.b THEN FloatV(2) ELSE FloatV(0))
    ELSE v

\* f64::partial_cmp: "Less", "Equal", "Greater", or "None" when a NaN is
\* involved.
F64Rank(x) == IF x.c = "ninf" THEN 0
              ELSE IF x.c = "inf" THEN 4
              ELSE IF HasField(x, "e") THEN 3
              ELSE IF HasField(x, "p53") THEN 2
              ELSE 1

IntCmp(a, b) == IF a < b THEN "Less" ELSE IF a > b THEN "Greater" ELSE "Equal"

f64_partial_cmp(x, y) ==
    IF x.c = "nan" \/ y.c = "nan" THEN "None"
    ELSE IF F64Rank(x) # F64Rank(y) THEN IntCmp(F64Rank(x), F64Rank(y))
    ELSE IF F64Rank(x) = 1 THEN IntCmp(x.h, y.h)
    ELSE IF F64Rank(x) = 2 THEN IntCmp(x.p53, y.p53)
    ELSE "Equal"

(***************************************************************************)
(* CoreILHeap: a BinaryHeap of HeapEntry plus the insertion counter.       *)
(***************************************************************************)
\* HeapEntry::cmp (self = a, other = b): the order is reversed so that the
\* max-heap pops the smallest priority; an incomparable pair counts as
\* Equal and falls through to the counters.
HeapEntry_cmp(a, b) ==
    LET ord == f64_partial_cmp(b.priority, a.priority)
    IN IF ord \in {"Equal", "None"} THEN IntCmp(b.counter, a.counter) ELSE ord

CoreILHeap_new == [k |-> "Heap", heap |-> {}, counter |-> 0]

CoreILHeap_push(h, priority, value) ==
    [h EXCEPT !.heap = @ \cup {[priority |-> priority, counter |-> h.counter,
                                value |-> value]},
              !.counter = @ + 1]

\* BinaryHeap::peek / pop give the greatest entry under Ord.  With a NaN
\* priority Ord is not a total order and the heap may hold any of the
\* entries that no other entry exceeds at its root.
BinaryHeap_top(heap) ==
    {e \in heap : \A f \in heap : f = e \/ HeapEntry_cmp(e, f) = "Greater"}

BinaryHeap_roots(heap) ==
    IF BinaryHeap_top(heap) # {} THEN BinaryHeap_top(heap) ELSE heap

CoreILHeap_size(h) == Cardinality(h.heap)

(***************************************************************************)
(* The store and the frame of a runtime call.                              *)
(***************************************************************************)
Free == [k |-> "Free"]

IsKind(o, v, tag) == v.t = tag /\ HasField(v, "ref") /\ o[v.ref].k = tag

NoCall == [call |-> "none", ok |-> TRUE, val |-> Unit, args |-> <<>>]

\* The state after a call: the store the call left, its outcome, and the
\* store it started from.
Returns(out, call, args) ==
    /\ objs' = out.objs
    /\ res' = [call |-> call, ok |-> out.ok, val |-> out.val, args |-> args]
    /\ prev' = objs

Called(call) == res.call = call
Succeeded(call) == res.call = call /\ res.ok
Failed(call) == res.call = call /\ ~res.ok

(***************************************************************************)
(* Heap operations.                                                        *)
(***************************************************************************)
heap_push_count_first(o, heap, priority, value) ==
    IF IsKind(o, heap, "Heap")
    THEN IF is_numeric(priority)
         THEN Ok(Unit, [o EXCEPT ![heap.ref] =
                          CoreILHeap_push(@, to_numeric(priority), value)])
         ELSE Panic([o EXCEPT ![heap.ref].counter = @ + 1])
    ELSE Panic(o)

heap_push(o, heap, priority, value) ==
    IF IsKind(o, heap, "Heap")
    THEN IF is_numeric(priority)
         THEN Ok(Unit, [o EXCEPT ![heap.ref] =
                          CoreILHeap_push(@, to_numeric(priority), value)])
         ELSE Panic(o)
    ELSE Panic(o)

\* heap_pop: the outcomes, one per entry the binary heap may hold at its
\* root (exactly one when no priority is NaN).
heap_pop(o, heap) ==
    IF IsKind(o, heap, "Heap")
    THEN IF o[heap.ref].heap = {} THEN {Panic(o)}
         ELSE {Ok(e.value, [o EXCEPT ![heap.ref].heap = @ \ {e}]) :
                 e \in BinaryHeap_roots(o[heap.ref].heap)}
    ELSE {Panic(o)}

\* A peek that takes the entry out of the heap.
heap_peek_removing(o, heap) ==
    IF IsKind(o, heap, "Heap")
    THEN IF o[heap.ref].heap = {} THEN {Panic(o)}
         ELSE {Ok(e.value, [o EXCEPT ![heap.ref].heap = @ \ {e}]) :
                 e \in BinaryHeap_roots(o[heap.ref].heap)}
    ELSE {Panic(o)}

heap_peek(o, heap) ==
    IF IsKind(o, heap, "Heap")
    THEN IF o[heap.ref].heap = {} THEN {Panic(o)}
         ELSE {Ok(e.value, o) : e \in BinaryHeap_roots(o[heap.ref].heap)}
    ELSE {Panic(o)}

heap_size(o, heap) ==
    IF IsKind(o, heap, "Heap") THEN Ok(IntV(CoreILHeap_size(o[heap.ref])), o)
    ELSE Panic(o)

(***************************************************************************)
(* SpecHeap: one Heap, any interleaving of heap_push, heap_pop, heap_peek  *)
(* and heap_size.  log lists the successful pushes in order, each with     *)
(* the priority Value the caller passed and the value pushed.              *)
(***************************************************************************)
MaxPush == 3

Letters == <<"a", "b", "c", "d", "e", "f", "g", "h">>

\* The priorities a caller passes: equal and different small Ints, a Bool
\* (1), Ints that differ by one above 2^53, and a Str (not numeric).
Priorities == {IntV(1), IntV(2), BoolV(TRUE), BigIntV(0), BigIntV(1),
               StrV(<<"x">>)}

InitHeap ==
    /\ objs = [a \in {1} |-> CoreILHeap_new]
    /\ regs = [h |-> Handle("Heap", 1)]
    /\ res = NoCall
    /\ prev = objs
    /\ log = <<>>

HeapPush ==
    /\ Len(log) < MaxPush
    /\ \E p \in Priorities :
         LET v == StrV(<<Letters[Len(log) + 1]>>)
             out == heap_push(objs, regs.h, p, v)
         IN /\ Returns(out, "heap_push", <<regs.h, p, v>>)
            /\ log' = IF out.ok THEN Append(log, [prio |-> p, val |-> v]) ELSE log
    /\ UNCHANGED regs

HeapPop ==
    /\ \E out \in heap_pop(objs, regs.h) : Returns(out, "heap_pop", <<regs.h>>)
    /\ UNCHANGED <<regs, log>>

HeapPeek ==
    /\ \E out \in heap_peek(objs, regs.h) : Returns(out, "heap_peek", <<regs.h>>)
    /\ UNCHANGED <<regs, log>>

HeapSize ==
    /\ Returns(heap_size(objs, regs.h), "heap_size", <<regs.h>>)
    /\ UNCHANGED <<regs, log>>

NextHeap == HeapPush \/ HeapPop \/ HeapPeek \/ HeapSize

SpecHeap == InitHeap /\ [][NextHeap]_vars

\* The mathematical order of two priorities as the caller passed them.
ExactKey(p) == IF p.t = "Bool" THEN <<0, IF p.b THEN 2 ELSE 0>>
               ELSE IF p.t = "Int" THEN (IF HasField(p, "p53") THEN <<1, p.p53>>
                                         ELSE <<0, 2 * p.n>>)
               ELSE IF HasField(p, "p53") THEN <<1, p.p53>>
               ELSE <<0, p.h>>

ExactLess(p, q) == \/ ExactKey(p)[1] < ExactKey(q)[1]
                   \/ ExactKey(p)[1] = ExactKey(q)[1] /\ ExactKey(p)[2] < ExactKey(q)[2]

\* Entry i of the log comes out before entry j: smaller priority, or the
\* same priority and pushed earlier.
PopsBefore(i, j) == \/ ExactLess(log[i].prio, log[j].prio)
                    \/ ~ExactLess(log[j].prio, log[i].prio) /\ i < j

\* The log positions of the entries the heap held before the last call.
HeldBefore == {e.counter + 1 : e \in prev[1].heap}

\* C1: every heap_pop returns the value of the entry with the smallest
\* priority among the entries in the heap, the earliest pushed among equal
\* priorities.
C1_PopIsStableMin ==
    Succeeded("heap_pop") =>
        \E i \in HeldBefore :
            /\ res.val = log[i].val
            /\ \A j \in HeldBefore \ {i} : PopsBefore(i, j)

(***************************************************************************)
(* Text.  A string is the sequence of its characters, each a one-character *)
(* string.                                                                 *)
(***************************************************************************)
Digits == <<"0", "1", "2", "3", "4", "5", "6", "7", "8", "9">>

RECURSIVE NatToChars(_)
NatToChars(n) == IF n < 10 THEN <<Digits[n + 1]>>
                 ELSE NatToChars(n \div 10) \o <<Digits[(n % 10) + 1]>>

\* format!("{}", n) for an i64.
IntToChars(n) == IF n < 0 THEN <<"-">> \o NatToChars(-n) ELSE NatToChars(n)

\* The decimal digits of 2^53 + k, for 0 <= k < 8 (2^53 = 9007199254740992).
P53ToChars(k) == <<"9", "0", "0", "7", "1", "9", "9", "2", "5", "4", "7", "4",
                   "0", "9", "9">> \o <<Digits[k + 3]>>

\* The decimal digits of 1e20.
E20ToChars == <<"1">> \o [i \in 1..20 |-> "0"]

RECURSIVE Join(_, _)
Join(parts, sep) == IF parts = <<>> THEN <<>>
                    ELSE IF Len(parts) = 1 THEN parts[1]
                    ELSE parts[1] \o sep \o Join(Tail(parts), sep)

\* s.len(): the length of a String in bytes (UTF-8).
Utf8Len(c) == IF c \in {"é"} THEN 2 ELSE 1

\* A length that is 1 for every string.
ByteLen_one(s) == 1

RECURSIVE ByteLen(_)
ByteLen(s) == IF s = <<>> THEN 0 ELSE Utf8Len(Head(s)) + ByteLen(Tail(s))

Zeros(n) == [i \in 1..n |-> "0"]

\* format!("{:.17}", f): fixed notation with 17 digits after the point.
FloatFixed17(f) ==
    IF f.c = "nan" THEN <<"N", "a", "N">>
    ELSE IF f.c = "inf" THEN <<"i", "n", "f">>
    ELSE IF f.c = "ninf" THEN <<"-", "i", "n", "f">>
    ELSE IF HasField(f, "p53") THEN P53ToChars(f.p53) \o <<".">> \o Zeros(17)
    ELSE IF HasField(f, "e") THEN E20ToChars \o <<".">> \o Zeros(17)
    ELSE LET a == IF f.h < 0 THEN -f.h ELSE f.h
         IN (IF f.h < 0 THEN <<"-">> ELSE <<>>) \o NatToChars(a \div 2) \o <<".">>
            \o (IF a % 2 = 1 THEN <<"5">> ELSE <<"0">>) \o Zeros(16)

(***************************************************************************)
(* serialize_value: the key of a Value in an OrderedMap or OrderedSet.     *)
(* An Array is serialized by its current content, the other containers by  *)
(* the address of their payload.                                           *)
(***************************************************************************)
RECURSIVE serialize_value(_, _)
RECURSIVE serialize_items(_, _)
serialize_items(o, items) ==
    IF items = <<>> THEN <<>>
    ELSE <<serialize_value(o, Head(items))>> \o serialize_items(o, Tail(items))

serialize_value(o, v) ==
    IF v.t = "None" THEN <<"N">>
    ELSE IF v.t = "Bool" THEN (IF v.b THEN <<"B", "1">> ELSE <<"B", "0">>)
    ELSE IF v.t = "Int" THEN
        <<"I">> \o (IF HasField(v, "p53") THEN P53ToChars(v.p53) ELSE IntToChars(v.n))
    ELSE IF v.t = "Float" THEN <<"F">> \o FloatFixed17(v)
    ELSE IF v.t = "Str" THEN <<"S">> \o NatToChars(ByteLen(v.s)) \o <<":">> \o v.s
    ELSE IF v.t = "Tuple" THEN
        <<"T", "(">> \o Join(serialize_items(o, v.items), <<",">>) \o <<")">>
    ELSE IF v.t = "Array" THEN
        <<"A", "[">> \o Join(serialize_items(o, o[v.ref].items), <<",">>) \o <<"]">>
    ELSE IF v.t = "Map" THEN <<"M", "@">> \o NatToChars(v.ref)
    ELSE IF v.t = "Set" THEN <<"S", "E", "T", "@">> \o NatToChars(v.ref)
    ELSE IF v.t = "Record" THEN <<"R", "@">> \o NatToChars(v.ref)
    ELSE IF v.t = "Deque" THEN <<"D", "Q", "@">> \o NatToChars(v.ref)
    ELSE <<"H", "@">> \o NatToChars(v.ref)

(***************************************************************************)
(* OrderedMap: entries in insertion order and an index from the            *)
(* serialized key to the position of its entry (0-based, as in the code).  *)
(***************************************************************************)
OrderedMap_new(kind) == [k |-> kind, entries |-> <<>>, index |-> <<>>]

\* HashMap::insert(skey, idx).
IndexInsert(index, skey, idx) ==
    [x \in DOMAIN index \cup {skey} |-> IF x = skey THEN idx ELSE index[x]]

OrderedMap_set_move_to_end(o, m, key, value) ==
    LET skey == serialize_value(o, key)
        kept == SelectSeq(m.entries, LAMBDA e : serialize_value(o, e[1]) # skey)
    IN [m EXCEPT !.entries = Append(kept, <<key, value>>),
                 !.index = [x \in {serialize_value(o, kept[i][1]) : i \in 1..Len(kept)}
                                     \cup {skey} |->
                              IF x = skey THEN Len(kept)
                              ELSE (CHOOSE i \in 1..Len(kept) :
                                        serialize_value(o, kept[i][1]) = x) - 1]]

OrderedMap_set(o, m, key, value) ==
    LET skey == serialize_value(o, key)
    IN IF skey \in DOMAIN m.index
       THEN [m EXCEPT !.entries[m.index[skey] + 1][2] = value]
       ELSE [m EXCEPT !.entries = Append(@, <<key, value>>),
                      !.index = IndexInsert(@, skey, Len(m.entries))]

\* OrderedMap::get: <<TRUE, value>> for Some, <<FALSE, Unit>> for None.
OrderedMap_get(o, m, key) ==
    LET skey == serialize_value(o, key)
    IN IF skey \in DOMAIN m.index THEN <<TRUE, m.entries[m.index[skey] + 1][2]>>
       ELSE <<FALSE, Unit>>

OrderedMap_get_default(o, m, key, default) ==
    IF OrderedMap_get(o, m, key)[1] THEN OrderedMap_get(o, m, key)[2] ELSE default

OrderedMap_keys(m) == [i \in 1..Len(m.entries) |-> m.entries[i][1]]

OrderedMap_size(m) == Len(m.entries)

OrderedMap_contains_key(o, m, key) == serialize_value(o, key) \in DOMAIN m.index

(***************************************************************************)
(* Array and Map operations.                                               *)
(***************************************************************************)
\* Rc::new: the address of a fresh payload.
FreeAddrs(o) == {a \in DOMAIN o : o[a] = Free}
NewAddr(o) == CHOOSE a \in FreeAddrs(o) : \A b \in FreeAddrs(o) : a <= b

ArrayPayload(items) == [k |-> "Array", items |-> items]

\* make_array: a fresh Array handle holding items.
make_array(o, items) ==
    Ok(Handle("Array", NewAddr(o)), [o EXCEPT ![NewAddr(o)] = ArrayPayload(items)])

map_set(o, map, key, value) ==
    IF IsKind(o, map, "Map")
    THEN Ok(Unit, [o EXCEPT ![map.ref] = OrderedMap_set(o, @, key, value)])
    ELSE Panic(o)

map_get(o, map, key) ==
    IF IsKind(o, map, "Map")
    THEN (IF OrderedMap_get(o, o[map.ref], key)[1]
          THEN Ok(OrderedMap_get(o, o[map.ref], key)[2], o)
          ELSE Panic(o))
    ELSE Panic(o)

\* A map_get_default that stores the default under a missing key.
map_get_default_inserting(o, map, key, default) ==
    IF IsKind(o, map, "Map")
    THEN (IF OrderedMap_get(o, o[map.ref], key)[1]
          THEN Ok(OrderedMap_get(o, o[map.ref], key)[2], o)
          ELSE Ok(default, [o EXCEPT ![map.ref] = OrderedMap_set(o, @, key, default)]))
    ELSE Panic(o)

map_get_default(o, map, key, default) ==
    IF IsKind(o, map, "Map")
    THEN Ok(OrderedMap_get_default(o, o[map.ref], key, default), o)
    ELSE Panic(o)

map_keys(o, map) ==
    IF IsKind(o, map, "Map") THEN make_array(o, OrderedMap_keys(o[map.ref]))
    ELSE Panic(o)

map_contains(o, map, key) ==
    IF IsKind(o, map, "Map")
    THEN Ok(BoolV(OrderedMap_contains_key(o, o[map.ref], key)), o)
    ELSE Panic(o)

(***************************************************************************)
(* SpecMap: one Map under any sequence of map_set calls, with the reads    *)
(* map_keys, map_get, map_get_default and map_contains in between.  log    *)
(* lists the keys of the map_set calls in order.  r is the program         *)
(* variable that receives the Array of map_keys.                           *)
(***************************************************************************)
MaxSet == 3

\* Keys with pairwise different serializations (1, 1.0, "a", (1,)) and
\* values to store under them.
MapKeys == {IntV(1), FloatV(2), StrV(<<"a">>), TupleV(<<IntV(1)>>)}
MapVals == {IntV(10), IntV(20)}

\* Assigning a program variable drops the Value it held: a payload no
\* other handle refers to is freed.
Release(o, v) == IF HasField(v, "ref") THEN [o EXCEPT ![v.ref] = Free] ELSE o

InitMap ==
    /\ objs = [a \in {1, 2} |-> IF a = 1 THEN OrderedMap_new("Map") ELSE Free]
    /\ regs = [m |-> Handle("Map", 1), r |-> NoneV]
    /\ res = NoCall
    /\ prev = objs
    /\ log = <<>>

MapSet ==
    /\ Len(log) < MaxSet
    /\ \E key \in MapKeys, value \in MapVals :
         /\ Returns(map_set(objs, regs.m, key, value), "map_set", <<regs.m, key, value>>)
         /\ log' = Append(log, key)
    /\ UNCHANGED regs

MapKeysCall ==
    /\ LET out == map_keys(Release(objs, regs.r), regs.m)
       IN /\ Returns(out, "map_keys", <<regs.m>>)
          /\ regs' = [regs EXCEPT !.r = out.val]
    /\ UNCHANGED log

MapGet ==
    /\ \E key \in MapKeys : Returns(map_get(objs, regs.m, key), "map_get", <<regs.m, key>>)
    /\ UNCHANGED <<regs, log>>

MapGetDefault ==
    /\ \E key \in MapKeys :
         Returns(map_get_default(objs, regs.m, key, NoneV), "map_get_default",
                 <<regs.m, key, NoneV>>)
    /\ UNCHANGED <<regs, log>>

MapContains ==
    /\ \E key \in MapKeys :
         Returns(map_contains(objs, regs.m, key), "map_contains", <<regs.m, key>>)
    /\ UNCHANGED <<regs, log>>

NextMap == MapSet \/ MapKeysCall \/ MapGet \/ MapGetDefault \/ MapContains

SpecMap == InitMap /\ [][NextMap]_vars

\* The keys of a sequence of map_set calls in the order of their first
\* use; two keys are the same key when they serialize alike.
RECURSIVE FirstInsertions(_, _)
FirstInsertions(keys, seen) ==
    IF keys = <<>> THEN <<>>
    ELSE IF serialize_value(objs, Head(keys)) \in seen
         THEN FirstInsertions(Tail(keys), seen)
         ELSE <<Head(keys)>> \o
              FirstInsertions(Tail(keys), seen \cup {serialize_value(objs, Head(keys))})

\* The position of the entry of prev's map whose key serializes like key
\* (0 when there is none).
EntryOf(key) ==
    LET hits == {i \in 1..Len(prev[1].entries) :
                   serialize_value(prev, prev[1].entries[i][1]) = serialize_value(prev, key)}
    IN IF hits = {} THEN 0 ELSE CHOOSE i \in hits : TRUE

\* C2: map_keys gives the keys in the order of their first insertion; a
\* map_set with a new key appends the entry, a map_set with an existing key
\* replaces that entry's value and nothing else.
C2_KeysInFirstInsertionOrder ==
    /\ OrderedMap_keys(objs[1]) = FirstInsertions(log, {})
    /\ Succeeded("map_keys") => objs[res.val.ref].items = FirstInsertions(log, {})
    /\ Succeeded("map_set") =>
         LET i == EntryOf(res.args[2])
         IN IF i = 0
            THEN objs[1].entries = Append(prev[1].entries, <<res.args[2], res.args[3]>>)
            ELSE objs[1].entries = [prev[1].entries EXCEPT ![i][2] = res.args[3]]

\* A map_set replaced the value of the first of at least two entries, and a
\* later map_keys returned the keys.
C2_Witness ==
    /\ Succeeded("map_keys")
    /\ Len(objs[1].entries) >= 2
    /\ Len(log) > Len(objs[1].entries)
    /\ serialize_value(objs, log[Len(log)]) = serialize_value(objs, log[1])

(***************************************************************************)
(* Coercion to i64 (as_int), as used for indices.                          *)
(***************************************************************************)
IsDigit(c) == c \in {Digits[i] : i \in 1..10}

RECURSIVE DigitsValue(_, _)
DigitsValue(s, acc) ==
    IF s = <<>> THEN acc
    ELSE DigitsValue(Tail(s), 10 * acc + ((CHOOSE i \in 1..10 : Digits[i] = Head(s)) - 1))

\* The longest decimal literal read into an integer of the model checker; a
\* longer literal that an i64 holds is an Int named by 2^53 + k or by its
\* digits.
MaxDigits == 9

RECURSIVE StripZeros(_)
StripZeros(s) == IF Len(s) > 1 /\ Head(s) = "0" THEN StripZeros(Tail(s)) ELSE s

\* x > y for two digit strings of the same length.
RECURSIVE DigitsGreater(_, _)
DigitsGreater(x, y) ==
    IF x = <<>> THEN FALSE
    ELSE IF Head(x) # Head(y) THEN DigitsValue(<<Head(x)>>, 0) > DigitsValue(<<Head(y)>>, 0)
    ELSE DigitsGreater(Tail(x), Tail(y))

\* The digits of i64::MAX, 9223372036854775807, and of -i64::MIN.
I64MaxDigits == <<"9", "2", "2", "3", "3", "7", "2", "0", "3", "6", "8", "5", "4", "7",
                  "7", "5", "8", "0", "7">>
I64MinDigits == [I64MaxDigits EXCEPT ![19] = "8"]

\* str::parse::<i64>: <<TRUE, Int>> or <<FALSE, Unit>> (Err).  An optional
\* sign, then one or more digits; a literal outside the i64 range is an Err.
ParseI64(s) ==
    LET neg == s # <<>> /\ Head(s) = "-"
        body == IF s # <<>> /\ Head(s) \in {"-", "+"} THEN Tail(s) ELSE s
        d == StripZeros(body)
    IN IF body = <<>> \/ \E i \in 1..Len(body) : ~IsDigit(body[i]) THEN <<FALSE, Unit>>
       ELSE IF Len(d) > 19 THEN <<FALSE, Unit>>
       ELSE IF Len(d) = 19 /\ DigitsGreater(d, IF neg THEN I64MinDigits ELSE I64MaxDigits)
            THEN <<FALSE, Unit>>
       ELSE IF Len(d) <= MaxDigits
            THEN <<TRUE, IntV(IF neg THEN -DigitsValue(d, 0) ELSE DigitsValue(d, 0))>>
       ELSE IF ~neg /\ \E k \in 0..7 : d = P53ToChars(k)
            THEN <<TRUE, BigIntV(CHOOSE k \in 0..7 : d = P53ToChars(k))>>
       ELSE <<TRUE, [t |-> "Int", lit |-> (IF neg THEN <<"-">> ELSE <<>>) \o d]>>

\* The first position of one of the characters cs in s, 0 when there is none.
FirstIndexOf(s, cs) ==
    IF \E i \in 1..Len(s) : s[i] \in cs
    THEN CHOOSE i \in 1..Len(s) : s[i] \in cs /\ \A j \in 1..(i - 1) : s[j] \notin cs
    ELSE 0

AsciiLower(c) ==
    CASE c = "I" -> "i" [] c = "N" -> "n" [] c = "F" -> "f" [] c = "A" -> "a"
      [] c = "T" -> "t" [] c = "Y" -> "y" [] OTHER -> c

\* str::parse::<f64>: <<TRUE, Float>> or <<FALSE, Unit>> (Err).  An optional
\* sign, then inf / infinity / nan in any case, or digits with an optional
\* point and an optional exponent, at least one digit in the mantissa and in
\* the exponent.  A finite value that is not a count of halves within
\* MaxDigits digits is a Float named by its literal.
ParseF64(s) ==
    LET neg == s # <<>> /\ Head(s) = "-"
        body == IF s # <<>> /\ Head(s) \in {"-", "+"} THEN Tail(s) ELSE s
        low == [i \in 1..Len(body) |-> AsciiLower(body[i])]
        ePos == FirstIndexOf(body, {"e", "E"})
        mant == IF ePos = 0 THEN body ELSE SubSeq(body, 1, ePos - 1)
        expo == IF ePos = 0 THEN <<>> ELSE SubSeq(body, ePos + 1, Len(body))
        expDigits == IF expo # <<>> /\ Head(expo) \in {"-", "+"} THEN Tail(expo) ELSE expo
        dot == FirstIndexOf(mant, {"."})
        ip == IF dot = 0 THEN mant ELSE SubSeq(mant, 1, dot - 1)
        fp == IF dot = 0 THEN <<>> ELSE SubSeq(mant, dot + 1, Len(mant))
        allDigits(x) == \A i \in 1..Len(x) : IsDigit(x[i])
        allZeros(x) == \A i \in 1..Len(x) : x[i] = "0"
        whole == DigitsValue(StripZeros(IF ip = <<>> THEN <<"0">> ELSE ip), 0)
        halves == 2 * whole + (IF allZeros(fp) THEN 0 ELSE 1)
    IN IF low \in {<<"i", "n", "f">>, <<"i", "n", "f", "i", "n", "i", "t", "y">>}
       THEN <<TRUE, IF neg THEN NegInfV ELSE InfV>>
       ELSE IF low = <<"n", "a", "n">> THEN <<TRUE, NaNV>>
       ELSE IF ~allDigits(ip) \/ ~allDigits(fp) \/ (ip = <<>> /\ fp = <<>>)
            THEN <<FALSE, Unit>>
       ELSE IF ePos # 0 /\ (expDigits = <<>> \/ ~allDigits(expDigits)) THEN <<FALSE, Unit>>
       ELSE IF /\ allZeros(expDigits)
               /\ Len(StripZeros(IF ip = <<>> THEN <<"0">> ELSE ip)) <= MaxDigits
               /\ (allZeros(fp) \/ (Head(fp) = "5" /\ allZeros(Tail(fp))))
            THEN <<TRUE, FloatV(IF neg THEN -halves ELSE halves)>>
       ELSE IF allZeros(expDigits) /\ allZeros(fp)
               /\ \E k \in {0, 2, 4, 6} : StripZeros(ip) = P53ToChars(k)
            THEN <<TRUE, BigFloatV(CHOOSE k \in {0, 2, 4, 6} : StripZeros(ip) = P53ToChars(k))>>
       ELSE <<TRUE, [t |-> "Float", lit |-> s]>>

\* f as i64, as an Int Value: truncation toward zero, 0 for a NaN, and the
\* nearest end of the i64 range for a Float beyond it (the cast saturates).
TruncHalves(h) == IF h >= 0 THEN h \div 2 ELSE -((-h) \div 2)

I64MaxV == [t |-> "Int", lit |-> I64MaxDigits]
I64MinV == [t |-> "Int", lit |-> <<"-">> \o I64MinDigits]

f64_as_i64(f) ==
    IF HasField(f, "lit") THEN [t |-> "Int", lit |-> <<"t", "r", "u", "n", "c", " ">> \o f.lit]
    ELSE IF f.c = "nan" THEN IntV(0)
    ELSE IF f.c = "inf" THEN I64MaxV
    ELSE IF f.c = "ninf" THEN I64MinV
    ELSE IF HasField(f, "e") THEN I64MaxV
    ELSE IF HasField(f, "p53") THEN BigIntV(f.p53)
    ELSE IntV(TruncHalves(f.h))

\* as_int: <<TRUE, Int Value>> or <<FALSE, Unit>> (panic).  A Str is parsed
\* as an i64, or else as an f64 that is then cast.
as_int(v) ==
    IF v.t = "Int" THEN <<TRUE, v>>
    ELSE IF v.t = "Float" THEN <<TRUE, f64_as_i64(v)>>
    ELSE IF v.t = "Bool" THEN <<TRUE, IntV(IF v.b THEN 1 ELSE 0)>>
    ELSE IF v.t = "Str"
         THEN (IF ParseI64(v.s)[1] THEN <<TRUE, ParseI64(v.s)[2]>>
               ELSE IF ParseF64(v.s)[1] THEN <<TRUE, f64_as_i64(ParseF64(v.s)[2])>>
               ELSE <<FALSE, Unit>>)
    ELSE <<FALSE, Unit>>

\* An i64 as an integer of the model checker.  One beyond its integers is
\* far outside every sequence the model holds, and stands as 2^30 or -2^30.
i64_clip(n) ==
    IF HasField(n, "n") THEN n.n
    ELSE IF HasField(n, "lit") /\ Head(n.lit) = "-" THEN 0 - 1073741824
    ELSE 1073741824

(***************************************************************************)
(* Array operations.                                                       *)
(***************************************************************************)
\* An index resolution without the wrap from the end.
resolve_index_no_negative(idx, len) ==
    IF idx < 0 \/ idx >= len THEN <<FALSE, 0>> ELSE <<TRUE, idx>>

\* resolve_index: <<TRUE, position>> (0-based) or <<FALSE, 0>> (panic).
resolve_index(idx, len) ==
    LET resolved == IF idx < 0 THEN len + idx ELSE idx
    IN IF resolved < 0 \/ resolved >= len THEN <<FALSE, 0>> ELSE <<TRUE, resolved>>

array_index(o, arr, index) ==
    LET items == IF IsKind(o, arr, "Array") THEN o[arr.ref].items
                 ELSE IF arr.t = "Tuple" THEN arr.items
                 ELSE IF arr.t = "Str" THEN [i \in 1..Len(arr.s) |-> StrV(<<arr.s[i]>>)]
                 ELSE <<>>
    IN IF IsKind(o, arr, "Array") \/ arr.t \in {"Tuple", "Str"}
       THEN IF as_int(index)[1]
            THEN IF resolve_index(i64_clip(as_int(index)[2]), Len(items))[1]
                 THEN Ok(items[resolve_index(i64_clip(as_int(index)[2]), Len(items))[2] + 1], o)
                 ELSE Panic(o)
            ELSE Panic(o)
       ELSE Panic(o)

array_set_index(o, arr, index, value) ==
    IF IsKind(o, arr, "Array")
    THEN IF as_int(index)[1]
         THEN IF resolve_index(i64_clip(as_int(index)[2]), Len(o[arr.ref].items))[1]
              THEN Ok(Unit, [o EXCEPT ![arr.ref].items[
                          resolve_index(i64_clip(as_int(index)[2]), Len(o[arr.ref].items))[2] + 1]
                          = value])
              ELSE Panic(o)
         ELSE Panic(o)
    ELSE Panic(o)

array_push(o, arr, value) ==
    IF IsKind(o, arr, "Array")
    THEN Ok(Unit, [o EXCEPT ![arr.ref].items = Append(@, value)])
    ELSE Panic(o)

array_length(o, v) ==
    IF IsKind(o, v, "Array") THEN Ok(IntV(Len(o[v.ref].items)), o)
    ELSE IF v.t = "Str" THEN Ok(IntV(Len(v.s)), o)
    ELSE IF v.t = "Tuple" THEN Ok(IntV(Len(v.items)), o)
    ELSE IF IsKind(o, v, "Map") THEN Ok(IntV(OrderedMap_size(o[v.ref])), o)
    ELSE Panic(o)

(***************************************************************************)
(* OrderedSet: items in insertion order and the set of their serialized    *)
(* keys.                                                                   *)
(***************************************************************************)
OrderedSet_new == [k |-> "Set", items |-> <<>>, index |-> {}]

OrderedSet_add(o, s, item) ==
    LET skey == serialize_value(o, item)
    IN IF skey \notin s.index
       THEN [s EXCEPT !.index = @ \cup {skey}, !.items = Append(@, item)]
       ELSE s

OrderedSet_has(o, s, item) == serialize_value(o, item) \in s.index

OrderedSet_remove(o, s, item) ==
    LET skey == serialize_value(o, item)
    IN IF skey \in s.index
       THEN [s EXCEPT !.index = @ \ {skey},
                      !.items = SelectSeq(@, LAMBDA v : serialize_value(o, v) # skey)]
       ELSE s

OrderedSet_size(s) == Len(s.items)

set_has(o, set, item) ==
    IF IsKind(o, set, "Set") THEN Ok(BoolV(OrderedSet_has(o, o[set.ref], item)), o)
    ELSE Panic(o)

set_add(o, set, item) ==
    IF IsKind(o, set, "Set")
    THEN Ok(Unit, [o EXCEPT ![set.ref] = OrderedSet_add(o, @, item)])
    ELSE Panic(o)

set_remove(o, set, item) ==
    IF IsKind(o, set, "Set")
    THEN Ok(Unit, [o EXCEPT ![set.ref] = OrderedSet_remove(o, @, item)])
    ELSE Panic(o)

set_size(o, set) ==
    IF IsKind(o, set, "Set") THEN Ok(IntV(OrderedSet_size(o[set.ref])), o)
    ELSE Panic(o)

(***************************************************************************)
(* SpecSet: one Set and two Arrays, a1 = [1] and a2 = [2].  The program    *)
(* adds and removes the Int 1 and the two Arrays, and writes to the Arrays *)
(* through its own handles a1 and a2.                                      *)
(***************************************************************************)
MaxLen == 2
MaxItems == 2

SetItems == {IntV(1), regs.a1, regs.a2}
ElemVals == {IntV(1), IntV(2)}

InitSet ==
    /\ objs = [a \in {1, 2, 3} |-> IF a = 1 THEN OrderedSet_new
                                   ELSE ArrayPayload(<<IntV(a - 1)>>)]
    /\ regs = [s |-> Handle("Set", 1), a1 |-> Handle("Array", 2),
               a2 |-> Handle("Array", 3)]
    /\ res = NoCall
    /\ prev = objs
    /\ log = <<>>

SetAdd ==
    /\ Len(objs[1].items) < MaxItems
    /\ \E x \in SetItems : Returns(set_add(objs, regs.s, x), "set_add", <<regs.s, x>>)
    /\ UNCHANGED <<regs, log>>

SetRemove ==
    /\ \E x \in SetItems : Returns(set_remove(objs, regs.s, x), "set_remove", <<regs.s, x>>)
    /\ UNCHANGED <<regs, log>>

SetHas ==
    /\ \E x \in SetItems : Returns(set_has(objs, regs.s, x), "set_has", <<regs.s, x>>)
    /\ UNCHANGED <<regs, log>>

SetSize ==
    /\ Returns(set_size(objs, regs.s), "set_size", <<regs.s>>)
    /\ UNCHANGED <<regs, log>>

SetArraySetIndex ==
    /\ \E a \in {regs.a1, regs.a2}, v \in ElemVals :
         Returns(array_set_index(objs, a, IntV(0), v), "array_set_index", <<a, IntV(0), v>>)
    /\ UNCHANGED <<regs, log>>

SetArrayPush ==
    /\ \E a \in {regs.a1, regs.a2}, v \in ElemVals :
         /\ Len(objs[a.ref].items) < MaxLen
         /\ Returns(array_push(objs, a, v), "array_push", <<a, v>>)
    /\ UNCHANGED <<regs, log>>

NextSet == SetAdd \/ SetRemove \/ SetHas \/ SetSize \/ SetArraySetIndex \/ SetArrayPush

SpecSet == InitSet /\ [][NextSet]_vars

Abs(n) == IF n < 0 THEN -n ELSE n

\* C3: right after set_add(s, x), set_has(s, x) is true; right after
\* set_remove(s, x), set_has(s, x) is false; and either call changes
\* set_size(s) by at most 1.
C3_SetMembership ==
    /\ Succeeded("set_add") =>
         /\ set_has(objs, regs.s, res.args[2]).val = BoolV(TRUE)
         /\ Abs(set_size(objs, regs.s).val.n - set_size(prev, regs.s).val.n) <= 1
    /\ Succeeded("set_remove") =>
         /\ set_has(objs, regs.s, res.args[2]).val = BoolV(FALSE)
         /\ Abs(set_size(objs, regs.s).val.n - set_size(prev, regs.s).val.n) <= 1

(***************************************************************************)
(* Arithmetic: floor_divide and modulo.                                    *)
(***************************************************************************)
\* (x as f64 / y as f64).floor() as i64, y # 0.  The f64 quotient of two
\* integers below 2^53 has the floor of the exact quotient.
FloorDiv(x, y) == IF y > 0 THEN x \div y ELSE (-x) \div (-y)

\* i64::rem_euclid, y # 0: the remainder r with 0 <= r < |y|.
rem_euclid(x, y) == x % Abs(y)

\* A finite f64 the model holds as a count of halves.
IsHalves(x) == x.c = "fin" /\ HasField(x, "h")

IsInfinite(x) == x.c \in {"inf", "ninf"}

IsNegative(x) == x.c = "ninf" \/ (IsHalves(x) /\ x.h < 0)

\* x / y on f64 for y # 0.0; a finite quotient that is no count of halves
\* is named by its operands.
f64_div(x, y) ==
    IF x.c = "nan" \/ y.c = "nan" THEN NaNV
    ELSE IF IsInfinite(x)
         THEN (IF IsInfinite(y) THEN NaNV
               ELSE IF IsNegative(x) = IsNegative(y) THEN InfV ELSE NegInfV)
    ELSE IF IsInfinite(y) THEN FloatV(0)
    ELSE IF (2 * x.h) % Abs(y.h) = 0 THEN FloatV(FloorDiv(2 * x.h, y.h))
    ELSE [t |-> "Float", c |-> "fin", quot |-> <<x.h, y.h>>]

\* (x / y).floor() on f64 for y # 0.0.
f64_div_floor(x, y) ==
    IF IsHalves(x) /\ IsHalves(y) THEN FloatV(2 * FloorDiv(x.h, y.h)) ELSE f64_div(x, y)

\* x - (x / y).floor() * y on f64 for y # 0.0: inf - inf and 0.0 * inf are NaN.
f64_mod(x, y) ==
    IF IsHalves(x) /\ IsHalves(y) THEN FloatV(x.h - FloorDiv(x.h, y.h) * y.h) ELSE NaNV

\* A divide without the test of the divisor.
op_divide_unchecked(a, b) ==
    IF ~is_numeric(a) \/ ~is_numeric(b) THEN Panic(objs)
    ELSE IF to_numeric(b) = FloatV(0)
         THEN Ok(IF to_numeric(a) \in {FloatV(0), NaNV} THEN NaNV
                 ELSE IF IsNegative(to_numeric(a)) THEN NegInfV ELSE InfV, objs)
    ELSE Ok(f64_div(to_numeric(a), to_numeric(b)), objs)

op_divide(a, b) ==
    IF ~is_numeric(a) \/ ~is_numeric(b) THEN Panic(objs)
    ELSE IF to_numeric(b) = FloatV(0) THEN Panic(objs)
    ELSE Ok(f64_div(to_numeric(a), to_numeric(b)), objs)

op_floor_divide(a, b) ==
    IF a.t = "Int" /\ b.t = "Int"
    THEN IF b.n = 0 THEN Panic(objs) ELSE Ok(IntV(FloorDiv(a.n, b.n)), objs)
    ELSE IF ~is_numeric(a) \/ ~is_numeric(b) THEN Panic(objs)
    ELSE IF to_numeric(b) = FloatV(0) THEN Panic(objs)
    ELSE Ok(f64_div_floor(to_numeric(a), to_numeric(b)), objs)

op_modulo(a, b) ==
    IF a.t = "Int" /\ b.t = "Int"
    THEN IF b.n = 0 THEN Panic(objs) ELSE Ok(IntV(rem_euclid(a.n, b.n)), objs)
    ELSE IF ~is_numeric(a) \/ ~is_numeric(b) THEN Panic(objs)
    ELSE IF to_numeric(b) = FloatV(0) THEN Panic(objs)
    ELSE Ok(f64_mod(to_numeric(a), to_numeric(b)), objs)

(***************************************************************************)
(* SpecArith: the binary operators on two operands a and b the program     *)
(* holds.                                                                  *)
(***************************************************************************)
MaxInt == 7

ArithVals == {IntV(n) : n \in -MaxInt..MaxInt}
             \cup {BoolV(TRUE), BoolV(FALSE), FloatV(3), FloatV(-5), FloatV(0),
                   StrV(<<"x">>), InfV, NaNV}

InitArith ==
    /\ objs = <<>>
    /\ \E a \in ArithVals, b \in ArithVals : regs = [a |-> a, b |-> b]
    /\ res = NoCall
    /\ prev = objs
    /\ log = <<>>

OpFloorDivide ==
    /\ Returns(op_floor_divide(regs.a, regs.b), "floor_divide", <<regs.a, regs.b>>)
    /\ UNCHANGED <<regs, log>>

OpModulo ==
    /\ Returns(op_modulo(regs.a, regs.b), "modulo", <<regs.a, regs.b>>)
    /\ UNCHANGED <<regs, log>>

OpDivide ==
    /\ Returns(op_divide(regs.a, regs.b), "divide", <<regs.a, regs.b>>)
    /\ UNCHANGED <<regs, log>>

NextArith == OpFloorDivide \/ OpModulo \/ OpDivide

SpecArith == InitArith /\ [][NextArith]_vars

Sign(n) == IF n < 0 THEN -1 ELSE IF n > 0 THEN 1 ELSE 0

\* C4: for every Int a and nonzero Int b, floor_divide(a, b) * b +
\* modulo(a, b) = a, and a nonzero modulo(a, b) has the sign of b.
C4_FloorDivModIdentity ==
    (/\ res.call \in {"floor_divide", "modulo"}
     /\ regs.a.t = "Int" /\ regs.b.t = "Int" /\ regs.b.n # 0) =>
        LET q == op_floor_divide(regs.a, regs.b)
            r == op_modulo(regs.a, regs.b)
        IN /\ res.ok /\ q.ok /\ r.ok
           /\ res.val = (IF res.call = "modulo" THEN r.val ELSE q.val)
           /\ q.val.n * regs.b.n + r.val.n = regs.a.n
           /\ r.val.n # 0 => Sign(r.val.n) = Sign(regs.b.n)

(***************************************************************************)
(* values_equal: deep equality.                                            *)
(***************************************************************************)
\* f64 == f64.
f64_eq(x, y) == f64_partial_cmp(x, y) = "Equal"

\* if *x { 1i64 } else { 0i64 }
BoolAsInt(v) == IF v.t = "Bool" THEN IntV(IF v.b THEN 1 ELSE 0) ELSE v

RECURSIVE values_equal(_, _, _)
RECURSIVE all_equal(_, _, _)
\* a1.iter().zip(a2.iter()).all(|(x, y)| values_equal(x, y)), equal lengths.
all_equal(o, xs, ys) ==
    \/ xs = <<>>
    \/ values_equal(o, Head(xs), Head(ys)) /\ all_equal(o, Tail(xs), Tail(ys))

values_equal(o, a, b) ==
    IF a.t = "None" /\ b.t = "None" THEN TRUE
    ELSE IF a.t = "Bool" /\ b.t = "Bool" THEN a.b = b.b
    ELSE IF a.t = "Int" /\ b.t = "Int" THEN a = b
    ELSE IF a.t = "Str" /\ b.t = "Str" THEN a.s = b.s
    ELSE IF a.t \in {"Int", "Float", "Bool"} /\ b.t \in {"Int", "Float", "Bool"}
         THEN \* Float with Float, and the cross-type numeric pairs
              IF {a.t, b.t} = {"Bool", "Int"}
              THEN BoolAsInt(a) = BoolAsInt(b)
              ELSE f64_eq(to_numeric(a), to_numeric(b))
    ELSE IF a.t = "Array" /\ b.t = "Array" THEN
        /\ Len(o[a.ref].items) = Len(o[b.ref].items)
        /\ all_equal(o, o[a.ref].items, o[b.ref].items)
    ELSE IF a.t = "Tuple" /\ b.t = "Tuple" THEN
        /\ Len(a.items) = Len(b.items)
        /\ all_equal(o, a.items, b.items)
    ELSE IF a.t = "Map" /\ b.t = "Map" THEN
        /\ Len(o[a.ref].entries) = Len(o[b.ref].entries)
        /\ all_equal(o, [i \in 1..Len(o[a.ref].entries) |-> o[a.ref].entries[i][1]],
                        [i \in 1..Len(o[b.ref].entries) |-> o[b.ref].entries[i][1]])
        /\ all_equal(o, [i \in 1..Len(o[a.ref].entries) |-> o[a.ref].entries[i][2]],
                        [i \in 1..Len(o[b.ref].entries) |-> o[b.ref].entries[i][2]])
    ELSE IF a.t = "Set" /\ b.t = "Set" THEN
        /\ Len(o[a.ref].items) = Len(o[b.ref].items)
        /\ \A i \in 1..Len(o[a.ref].items) :
             OrderedSet_has(o, o[b.ref], o[a.ref].items[i])
    ELSE FALSE

(***************************************************************************)
(* SpecEq: equal(a, b) on two Values the program holds, of every variant.  *)
(* The store holds one container of each kind, each with one element, an   *)
(* Array holding a NaN, and an Array holding the Deque.                    *)
(***************************************************************************)
EqStore ==
    <<ArrayPayload(<<IntV(1), StrV(<<"a">>)>>),
      [k |-> "Map", entries |-> <<<<StrV(<<"a">>), IntV(1)>>>>,
       index |-> [x \in {<<"S", "1", ":", "a">>} |-> 0]],
      [k |-> "Set", items |-> <<IntV(1)>>, index |-> {<<"I", "1">>}],
      [k |-> "Record", entries |-> <<<<StrV(<<"x">>), IntV(1)>>>>,
       index |-> [x \in {<<"S", "1", ":", "x">>} |-> 0]],
      [k |-> "Deque", items |-> <<IntV(1)>>],
      [k |-> "Heap", heap |-> {[priority |-> FloatV(2), counter |-> 0, value |-> IntV(1)]},
       counter |-> 1],
      ArrayPayload(<<NaNV>>),
      ArrayPayload(<<Handle("Deque", 5)>>),
      ArrayPayload(<<IntV(1), StrV(<<"a">>)>>)>>

EqTags == <<"Array", "Map", "Set", "Record", "Deque", "Heap", "Array", "Array", "Array">>

EqVals == {NoneV, BoolV(TRUE), BoolV(FALSE), IntV(0), IntV(1), FloatV(2), FloatV(3),
           NaNV, InfV, StrV(<<>>), StrV(<<"a">>), TupleV(<<IntV(1), StrV(<<"a">>)>>),
           TupleV(<<NaNV>>)}
          \cup {Handle(EqTags[a], a) : a \in 1..Len(EqStore)}

RECURSIVE ContainsNaN(_, _)
ContainsNaN(o, v) ==
    IF v.t = "Float" THEN v.c = "nan"
    ELSE IF v.t = "Tuple" THEN \E i \in 1..Len(v.items) : ContainsNaN(o, v.items[i])
    ELSE IF v.t \in {"Array", "Set", "Deque"}
         THEN \E i \in 1..Len(o[v.ref].items) : ContainsNaN(o, o[v.ref].items[i])
    ELSE IF v.t \in {"Map", "Record"}
         THEN \E i \in 1..Len(o[v.ref].entries) :
                 \/ ContainsNaN(o, o[v.ref].entries[i][1])
                 \/ ContainsNaN(o, o[v.ref].entries[i][2])
    ELSE IF v.t = "Heap"
         THEN \E e \in o[v.ref].heap : ContainsNaN(o, e.priority) \/ ContainsNaN(o, e.value)
    ELSE FALSE

InitEq ==
    /\ objs = EqStore
    /\ \E a \in EqVals, b \in EqVals : regs = [a |-> a, b |-> b]
    /\ res = NoCall
    /\ prev = objs
    /\ log = <<>>

OpEqual ==
    /\ Returns(Ok(BoolV(values_equal(objs, regs.a, regs.b)), objs), "equal",
               <<regs.a, regs.b>>)
    /\ UNCHANGED <<regs, log>>

OpNotEqual ==
    /\ Returns(Ok(BoolV(~values_equal(objs, regs.a, regs.b)), objs), "not_equal",
               <<regs.a, regs.b>>)
    /\ UNCHANGED <<regs, log>>

NextEq == OpEqual \/ OpNotEqual

SpecEq == InitEq /\ [][NextEq]_vars

\* C5: values_equal(a, a) is true for every Value a, of every variant,
\* that contains no NaN.
C5_EqualReflexive ==
    (Succeeded("equal") /\ regs.a = regs.b /\ ~ContainsNaN(objs, regs.a)) =>
        res.val = BoolV(TRUE)

(***************************************************************************)
(* Formatting (format_value) and truthiness.                               *)
(***************************************************************************)
\* format!("{}", f) for an f64: the shortest decimal that reads back as f,
\* without a point for a whole number.
f64_display(f) ==
    IF f.c = "nan" THEN <<"N", "a", "N">>
    ELSE IF f.c = "inf" THEN <<"i", "n", "f">>
    ELSE IF f.c = "ninf" THEN <<"-", "i", "n", "f">>
    ELSE IF HasField(f, "p53") THEN P53ToChars(f.p53)
    ELSE IF HasField(f, "e") THEN E20ToChars
    ELSE (IF f.h < 0 THEN <<"-">> ELSE <<>>) \o NatToChars(Abs(f.h) \div 2)
         \o (IF f.h % 2 = 1 THEN <<".", "5">> ELSE <<>>)

\* f == f.floor() && f.abs() < 1e15
f64_is_whole_below_1e15(f) == f.c = "fin" /\ HasField(f, "h") /\ f.h % 2 = 0

format_float(f) ==
    IF f.c = "nan" THEN <<"n", "a", "n">>
    ELSE IF f.c = "inf" THEN <<"i", "n", "f">>
    ELSE IF f.c = "ninf" THEN <<"-", "i", "n", "f">>
    ELSE IF f64_is_whole_below_1e15(f) THEN IntToChars(TruncHalves(f.h)) \o <<".", "0">>
    ELSE IF \E i \in 1..Len(f64_display(f)) : f64_display(f)[i] \in {".", "e", "E"}
         THEN f64_display(f)
    ELSE f64_display(f) \o <<".", "0">>

RECURSIVE format_value(_, _)
\* A format_value_repr that leaves a Str without quotes.
format_value_repr_raw(o, v) == format_value(o, v)

format_value_repr(o, v) ==
    IF v.t = "Str" THEN <<"'">> \o v.s \o <<"'">> ELSE format_value(o, v)

format_entries(o, entries) ==
    Join([i \in 1..Len(entries) |->
            format_value_repr(o, entries[i][1]) \o <<":", " ">>
            \o format_value_repr(o, entries[i][2])], <<",", " ">>)

format_value(o, v) ==
    IF v.t = "None" THEN <<"N", "o", "n", "e">>
    ELSE IF v.t = "Bool" THEN (IF v.b THEN <<"T", "r", "u", "e">>
                               ELSE <<"F", "a", "l", "s", "e">>)
    ELSE IF v.t = "Int" THEN (IF HasField(v, "p53") THEN P53ToChars(v.p53)
                              ELSE IntToChars(v.n))
    ELSE IF v.t = "Float" THEN format_float(v)
    ELSE IF v.t = "Str" THEN v.s
    ELSE IF v.t = "Array" THEN
        <<"[">> \o Join([i \in 1..Len(o[v.ref].items) |->
                           format_value_repr(o, o[v.ref].items[i])], <<",", " ">>) \o <<"]">>
    ELSE IF v.t = "Tuple" THEN
        (IF Len(v.items) = 1 THEN <<"(">> \o format_value_repr(o, v.items[1]) \o <<",", ")">>
         ELSE <<"(">> \o Join([i \in 1..Len(v.items) |-> format_value_repr(o, v.items[i])],
                              <<",", " ">>) \o <<")">>)
    ELSE IF v.t = "Map" THEN <<"{">> \o format_entries(o, o[v.ref].entries) \o <<"}">>
    ELSE IF v.t = "Set" THEN
        (IF o[v.ref].items = <<>> THEN <<"s", "e", "t", "(", ")">>
         ELSE <<"{">> \o Join([i \in 1..Len(o[v.ref].items) |->
                                 format_value_repr(o, o[v.ref].items[i])], <<",", " ">>)
              \o <<"}">>)
    ELSE IF v.t = "Record" THEN <<"{">> \o format_entries(o, o[v.ref].entries) \o <<"}">>
    ELSE IF v.t = "Deque" THEN
        <<"d", "e", "q", "u", "e", "(", "[">>
        \o Join([i \in 1..Len(o[v.ref].items) |->
                   format_value_repr(o, o[v.ref].items[i])], <<",", " ">>) \o <<"]", ")">>
    ELSE <<"<", "h", "e", "a", "p", ">">>

is_truthy(o, v) ==
    IF v.t = "None" THEN FALSE
    ELSE IF v.t = "Bool" THEN v.b
    ELSE IF v.t = "Int" THEN v # IntV(0)
    ELSE IF v.t = "Float" THEN v # FloatV(0)
    ELSE IF v.t = "Str" THEN v.s # <<>>
    ELSE IF v.t \in {"Array", "Set", "Deque"} THEN o[v.ref].items # <<>>
    ELSE IF v.t = "Tuple" THEN v.items # <<>>
    ELSE IF v.t = "Map" THEN o[v.ref].entries # <<>>
    ELSE IF v.t = "Record" THEN TRUE
    ELSE CoreILHeap_size(o[v.ref]) > 0

(***************************************************************************)
(* JSON: json_serialize.                                                   *)
(***************************************************************************)
\* The characters the model names by code point (c as u32, char::from_u32).
\* U+0008 has no escape in a TLA+ string and is written "<BS>".
CodePoints ==
    [c \in {"<BS>", "\t", "\n", "\f", "\r", " ", "\"", "$", "(", ")", "*", "+", "-", ".",
            "/", "0", "1", "9", "?", "A", "B", "U", "Z", "[", "\\", "]", "^", "_",
            "a", "b", "d", "u", "w", "z", "|", "É", "é"} |->
        CASE c = "<BS>" -> 8  [] c = "\t" -> 9   [] c = "\n" -> 10 [] c = "\f" -> 12
          [] c = "\r" -> 13   [] c = " " -> 32   [] c = "\"" -> 34 [] c = "$" -> 36
          [] c = "(" -> 40    [] c = ")" -> 41   [] c = "*" -> 42  [] c = "+" -> 43
          [] c = "-" -> 45    [] c = "." -> 46   [] c = "/" -> 47  [] c = "0" -> 48
          [] c = "1" -> 49    [] c = "9" -> 57   [] c = "?" -> 63  [] c = "A" -> 65
          [] c = "B" -> 66    [] c = "U" -> 85   [] c = "Z" -> 90  [] c = "[" -> 91
          [] c = "\\" -> 92   [] c = "]" -> 93   [] c = "^" -> 94  [] c = "_" -> 95
          [] c = "a" -> 97    [] c = "b" -> 98   [] c = "d" -> 100 [] c = "u" -> 117
          [] c = "w" -> 119   [] c = "z" -> 122  [] c = "|" -> 124 [] c = "É" -> 201
          [] c = "é" -> 233]

\* (c as u32) < 0x20
IsControl(c) == c \in DOMAIN CodePoints /\ CodePoints[c] < 32

HexDigits == <<"0", "1", "2", "3", "4", "5", "6", "7", "8", "9",
               "a", "b", "c", "d", "e", "f">>

\* format!("\\u{:04x}", c as u32) for a code point below 0x10000.
Hex4(n) == <<"\\", "u", HexDigits[((n \div 4096) % 16) + 1],
             HexDigits[((n \div 256) % 16) + 1],
             HexDigits[((n \div 16) % 16) + 1], HexDigits[(n % 16) + 1]>>

json_escape(ch) ==
    IF ch = "\"" THEN <<"\\", "\"">>
    ELSE IF ch = "\\" THEN <<"\\", "\\">>
    ELSE IF ch = "\n" THEN <<"\\", "n">>
    ELSE IF ch = "\r" THEN <<"\\", "r">>
    ELSE IF ch = "\t" THEN <<"\\", "t">>
    ELSE IF IsControl(ch) THEN Hex4(CodePoints[ch])
    ELSE <<ch>>

RECURSIVE Flatten(_)
Flatten(parts) == IF parts = <<>> THEN <<>> ELSE Head(parts) \o Flatten(Tail(parts))

\* " ".repeat(n)
Spaces(n) == [i \in 1..n |-> " "]

\* indent is <<>> for None and <<ind>> for Some(ind).
RECURSIVE json_serialize(_, _, _, _)
json_serialize(o, v, indent, depth) ==
    IF v.t = "None" THEN <<"n", "u", "l", "l">>
    ELSE IF v.t = "Bool" THEN (IF v.b THEN <<"t", "r", "u", "e">>
                               ELSE <<"f", "a", "l", "s", "e">>)
    ELSE IF v.t = "Int" THEN (IF HasField(v, "p53") THEN P53ToChars(v.p53)
                              ELSE IntToChars(v.n))
    ELSE IF v.t = "Float" THEN
        (IF f64_is_whole_below_1e15(v) THEN IntToChars(TruncHalves(v.h)) \o <<".", "0">>
         ELSE f64_display(v))
    ELSE IF v.t = "Str" THEN
        <<"\"">> \o Flatten([i \in 1..Len(v.s) |-> json_escape(v.s[i])]) \o <<"\"">>
    ELSE IF v.t = "Array" THEN
        LET arr == o[v.ref].items
        IN IF arr = <<>> THEN <<"[", "]">>
           ELSE IF indent # <<>> THEN
               LET ind == indent[1]
                   inner == Spaces(ind * (depth + 1))
                   outer == Spaces(ind * depth)
                   parts == [i \in 1..Len(arr) |->
                               inner \o json_serialize(o, arr[i], indent, depth + 1)]
               IN <<"[", "\n">> \o Join(parts, <<",", "\n">>) \o <<"\n">> \o outer \o <<"]">>
           ELSE <<"[">> \o Join([i \in 1..Len(arr) |-> json_serialize(o, arr[i], indent, depth)],
                                <<",", " ">>) \o <<"]">>
    ELSE IF v.t = "Map" THEN
        LET entries == o[v.ref].entries
        IN IF entries = <<>> THEN <<"{", "}">>
           ELSE IF indent # <<>> THEN
               LET ind == indent[1]
                   inner == Spaces(ind * (depth + 1))
                   outer == Spaces(ind * depth)
                   parts == [i \in 1..Len(entries) |->
                               inner \o json_serialize(o, entries[i][1], indent, depth + 1)
                               \o <<":", " ">>
                               \o json_serialize(o, entries[i][2], indent, depth + 1)]
               IN <<"{", "\n">> \o Join(parts, <<",", "\n">>) \o <<"\n">> \o outer \o <<"}">>
           ELSE <<"{">> \o Join([i \in 1..Len(entries) |->
                                   json_serialize(o, entries[i][1], indent, depth)
                                   \o <<":", " ">>
                                   \o json_serialize(o, entries[i][2], indent, depth)],
                                <<",", " ">>) \o <<"}">>
    ELSE json_serialize(o, StrV(format_value(o, v)), indent, depth)

json_stringify_val(o, v, pretty) ==
    Ok(StrV(json_serialize(o, v, IF is_truthy(o, pretty) THEN <<2>> ELSE <<>>, 0)), o)

(***************************************************************************)
(* JSON: JsonLexer.  Positions count from 1 (the code's pos + 1).          *)
(***************************************************************************)
Tok(k) == [k |-> k, s |-> <<>>]
StringVal(s) == [k |-> "StringVal", s |-> s]
NumberVal(s) == [k |-> "NumberVal", s |-> s]

\* The result of a lexer step: a token and the next position, the end of
\* the input (None), or a panic.
LexSome(tok, pos) == [ok |-> TRUE, some |-> TRUE, tok |-> tok, pos |-> pos]
LexNone(pos) == [ok |-> TRUE, some |-> FALSE, tok |-> Tok("None"), pos |-> pos]
LexPanic == [ok |-> FALSE, some |-> FALSE, tok |-> Tok("None"), pos |-> 0]

is_ascii_whitespace(c) == c \in {" ", "\t", "\n", "\f", "\r"}

RECURSIVE skip_ws(_, _)
skip_ws(chars, pos) ==
    IF pos <= Len(chars) /\ is_ascii_whitespace(chars[pos]) THEN skip_ws(chars, pos + 1)
    ELSE pos

\* u32::from_str_radix(hex, 16).unwrap_or(0) for four characters.
HexValue(c) ==
    IF \E i \in 1..16 : HexDigits[i] = c THEN (CHOOSE i \in 1..16 : HexDigits[i] = c) - 1
    ELSE IF c \in {"A", "B", "C", "D", "E", "F"}
         THEN CASE c = "A" -> 10 [] c = "B" -> 11 [] c = "C" -> 12
                [] c = "D" -> 13 [] c = "E" -> 14 [] c = "F" -> 15
    ELSE -1

from_str_radix_16(hex) ==
    LET digits == IF Head(hex) = "+" THEN Tail(hex) ELSE hex
    IN IF \E i \in 1..Len(digits) : HexValue(digits[i]) < 0 THEN 0
       ELSE IF Len(digits) = 4
            THEN 4096 * HexValue(digits[1]) + 256 * HexValue(digits[2])
                 + 16 * HexValue(digits[3]) + HexValue(digits[4])
       ELSE 256 * HexValue(digits[1]) + 16 * HexValue(digits[2]) + HexValue(digits[3])

\* char::from_u32: the one-character string of a code point, <<>> for a
\* surrogate (None).  A character the model has no name for is written by
\* its code point.
from_u32(code) ==
    IF code >= 55296 /\ code <= 57343 THEN <<>>
    ELSE IF \E c \in DOMAIN CodePoints : CodePoints[c] = code
         THEN <<CHOOSE c \in DOMAIN CodePoints : CodePoints[c] = code>>
    ELSE <<"U+" \o ToString(code)>>

\* The character an escape letter stands for.
lex_escape(e) ==
    IF e = "b" THEN "<BS>"
    ELSE IF e = "f" THEN "\f"
    ELSE IF e = "n" THEN "\n"
    ELSE IF e = "r" THEN "\r"
    ELSE IF e = "t" THEN "\t"
    ELSE e

\* The loop of lex_string, pos after the opening quote.
RECURSIVE lex_string_loop(_, _, _)
lex_string_loop(chars, pos, s) ==
    IF pos > Len(chars) THEN LexPanic
    ELSE IF chars[pos] = "\"" THEN LexSome(StringVal(s), pos + 1)
    ELSE IF chars[pos] = "\\" THEN
        IF pos + 1 > Len(chars) THEN LexPanic
        ELSE IF chars[pos + 1] = "u" THEN
            IF pos + 5 > Len(chars) THEN LexPanic
            ELSE lex_string_loop(chars, pos + 6,
                     s \o from_u32(from_str_radix_16(SubSeq(chars, pos + 2, pos + 5))))
        ELSE lex_string_loop(chars, pos + 2, Append(s, lex_escape(chars[pos + 1])))
    ELSE lex_string_loop(chars, pos + 1, Append(s, chars[pos]))

lex_string(chars, pos) == lex_string_loop(chars, pos + 1, <<>>)

RECURSIVE skip_digits(_, _)
skip_digits(chars, pos) ==
    IF pos <= Len(chars) /\ IsDigit(chars[pos]) THEN skip_digits(chars, pos + 1) ELSE pos

lex_number(chars, pos) ==
    LET p1 == IF chars[pos] = "-" THEN pos + 1 ELSE pos
        p2 == skip_digits(chars, p1)
        p3 == IF p2 <= Len(chars) /\ chars[p2] = "." THEN skip_digits(chars, p2 + 1) ELSE p2
        p4 == IF p3 <= Len(chars) /\ chars[p3] \in {"e", "E"}
              THEN skip_digits(chars, IF p3 + 1 <= Len(chars) /\ chars[p3 + 1] \in {"+", "-"}
                                      THEN p3 + 2 ELSE p3 + 1)
              ELSE p3
    IN LexSome(NumberVal(SubSeq(chars, pos, p4 - 1)), p4)

lex_kw(chars, pos, kw, tok) ==
    IF \E i \in 1..Len(kw) : pos + i - 1 > Len(chars) \/ chars[pos + i - 1] # kw[i]
    THEN LexPanic
    ELSE LexSome(tok, pos + Len(kw))

next_token(chars, pos0) ==
    LET pos == skip_ws(chars, pos0)
    IN IF pos > Len(chars) THEN LexNone(pos)
       ELSE LET ch == chars[pos]
            IN IF ch = "{" THEN LexSome(Tok("LBrace"), pos + 1)
               ELSE IF ch = "}" THEN LexSome(Tok("RBrace"), pos + 1)
               ELSE IF ch = "[" THEN LexSome(Tok("LBracket"), pos + 1)
               ELSE IF ch = "]" THEN LexSome(Tok("RBracket"), pos + 1)
               ELSE IF ch = ":" THEN LexSome(Tok("Colon"), pos + 1)
               ELSE IF ch = "," THEN LexSome(Tok("Comma"), pos + 1)
               ELSE IF ch = "\"" THEN lex_string(chars, pos)
               ELSE IF ch = "t" THEN lex_kw(chars, pos, <<"t", "r", "u", "e">>, Tok("True"))
               ELSE IF ch = "f"
                    THEN lex_kw(chars, pos, <<"f", "a", "l", "s", "e">>, Tok("False"))
               ELSE IF ch = "n" THEN lex_kw(chars, pos, <<"n", "u", "l", "l">>, Tok("Null"))
               ELSE IF ch = "-" \/ IsDigit(ch) THEN lex_number(chars, pos)
               ELSE LexPanic

\* JsonParser::new: <<TRUE, tokens>>, or <<FALSE, <<>>>> when the lexer panics.
RECURSIVE JsonParser_new(_, _, _)
JsonParser_new(chars, pos, tokens) ==
    LET t == next_token(chars, pos)
    IN IF ~t.ok THEN <<FALSE, <<>>>>
       ELSE IF ~t.some THEN <<TRUE, tokens>>
       ELSE JsonParser_new(chars, t.pos, Append(tokens, t.tok))

(***************************************************************************)
(* JSON: JsonParser.  pos counts from 1; a result carries the store with   *)
(* the containers built so far.                                            *)
(***************************************************************************)
ParseOk(val, pos, o) == [ok |-> TRUE, val |-> val, pos |-> pos, objs |-> o]
ParsePanic == [ok |-> FALSE, val |-> Unit, pos |-> 0, objs |-> <<>>]

\* JsonParser::peek: the token at pos, Tok("None") past the end.
JsonParser_peek(tokens, pos) == IF pos <= Len(tokens) THEN tokens[pos] ELSE Tok("None")

parse_number(s) ==
    IF \E i \in 1..Len(s) : s[i] \in {".", "e", "E"} THEN ParseF64(s) ELSE ParseI64(s)

RECURSIVE parse_value(_, _, _)
RECURSIVE parse_object_loop(_, _, _, _)
RECURSIVE parse_array_loop(_, _, _, _)

\* The loop of parse_object, map being the OrderedMap under construction.
parse_object_loop(o, tokens, pos, map) ==
    IF JsonParser_peek(tokens, pos).k # "StringVal" THEN ParsePanic
    ELSE IF JsonParser_peek(tokens, pos + 1).k # "Colon" THEN ParsePanic
    ELSE LET r == parse_value(o, tokens, pos + 2)
         IN IF ~r.ok THEN ParsePanic
            ELSE LET m2 == OrderedMap_set(r.objs, map, StrV(tokens[pos].s), r.val)
                     nxt == JsonParser_peek(tokens, r.pos).k
                 IN IF nxt = "Comma" THEN parse_object_loop(r.objs, tokens, r.pos + 1, m2)
                    ELSE IF nxt = "RBrace"
                         THEN ParseOk(Handle("Map", NewAddr(r.objs)), r.pos + 1,
                                      [r.objs EXCEPT ![NewAddr(r.objs)] = m2])
                    ELSE ParsePanic

parse_object(o, tokens, pos) ==
    IF JsonParser_peek(tokens, pos + 1).k = "RBrace"
    THEN ParseOk(Handle("Map", NewAddr(o)), pos + 2,
                 [o EXCEPT ![NewAddr(o)] = OrderedMap_new("Map")])
    ELSE parse_object_loop(o, tokens, pos + 1, OrderedMap_new("Map"))

\* The loop of parse_array, items being the Vec under construction.
parse_array_loop(o, tokens, pos, items) ==
    LET r == parse_value(o, tokens, pos)
    IN IF ~r.ok THEN ParsePanic
       ELSE LET nxt == JsonParser_peek(tokens, r.pos).k
            IN IF nxt = "Comma"
               THEN parse_array_loop(r.objs, tokens, r.pos + 1, Append(items, r.val))
               ELSE IF nxt = "RBracket"
                    THEN LET a == make_array(r.objs, Append(items, r.val))
                         IN ParseOk(a.val, r.pos + 1, a.objs)
               ELSE ParsePanic

parse_array(o, tokens, pos) ==
    IF JsonParser_peek(tokens, pos + 1).k = "RBracket"
    THEN ParseOk(make_array(o, <<>>).val, pos + 2, make_array(o, <<>>).objs)
    ELSE parse_array_loop(o, tokens, pos + 1, <<>>)

parse_value(o, tokens, pos) ==
    LET t == JsonParser_peek(tokens, pos)
    IN IF t.k = "LBrace" THEN parse_object(o, tokens, pos)
       ELSE IF t.k = "LBracket" THEN parse_array(o, tokens, pos)
       ELSE IF t.k = "StringVal" THEN ParseOk(StrV(t.s), pos + 1, o)
       ELSE IF t.k = "NumberVal"
            THEN (IF parse_number(t.s)[1] THEN ParseOk(parse_number(t.s)[2], pos + 1, o)
                  ELSE ParsePanic)
       ELSE IF t.k = "True" THEN ParseOk(BoolV(TRUE), pos + 1, o)
       ELSE IF t.k = "False" THEN ParseOk(BoolV(FALSE), pos + 1, o)
       ELSE IF t.k = "Null" THEN ParseOk(NoneV, pos + 1, o)
       ELSE ParsePanic

\* json_parse_val: a panic unwinds and drops what was built, leaving o.
json_parse_val(o, s) ==
    IF s.t # "Str" THEN Panic(o)
    ELSE LET lexed == JsonParser_new(s.s, 1, <<>>)
         IN IF ~lexed[1] THEN Panic(o)
            ELSE LET r == parse_value(o, lexed[2], 1)
                 IN IF r.ok THEN Ok(r.val, r.objs) ELSE Panic(o)

(***************************************************************************)
(* SpecJson: json_stringify of a value v, then json_parse of the string.   *)
(* The program holds an Array (address 1) and a Map with Str keys          *)
(* (address 2) built from scalars and a nested Array (address 3); v is a   *)
(* scalar or one of the containers.                                        *)
(***************************************************************************)
JsonStrings == {<<>>, <<"a">>, <<"\"">>, <<"\\">>, <<"\n">>, <<"\f">>, <<"é">>, <<"/">>,
                <<"\\", "n">>, <<"a", "\t">>}

JsonScalars == {NoneV, BoolV(TRUE), BoolV(FALSE), IntV(0), IntV(-7), IntV(12), BigIntV(1),
                FloatV(0), FloatV(6), FloatV(5), FloatV(-1), BigFloatV(2), HugeFloatV,
                InfV, NegInfV, NaNV}
               \cup {StrV(s) : s \in JsonStrings}

JsonElems == {IntV(1), FloatV(5), StrV(<<"\"">>), InfV, Handle("Array", 3)}

\* The addresses the program's own values live at; the rest holds what
\* json_parse builds.
JsonOwn == {1, 2, 3}
JsonAddrs == 8

\* The program drops the last json_parse result before its next call, which
\* frees what json_parse built.
DropParsed(o) == [a \in DOMAIN o |-> IF a \notin JsonOwn THEN Free ELSE o[a]]

InitJson ==
    /\ \E items \in {<<>>} \cup {<<x>> : x \in JsonElems}
                     \cup {<<x, y>> : x \in JsonElems, y \in {IntV(1), Handle("Array", 3)}},
          entries \in {<<>>} \cup {<<<<StrV(<<"k">>), x>>>> : x \in JsonElems}
                      \cup {<<<<StrV(<<"k">>), IntV(1)>>, <<StrV(<<"\"">>), x>>>> :
                              x \in {NoneV, Handle("Array", 3)}} :
         objs = [a \in 1..JsonAddrs |->
                   IF a = 1 THEN ArrayPayload(items)
                   ELSE IF a = 2 THEN
                       [k |-> "Map", entries |-> entries,
                        index |-> [x \in {serialize_value(<<>>, entries[i][1]) :
                                            i \in 1..Len(entries)} |->
                                     (CHOOSE i \in 1..Len(entries) :
                                          serialize_value(<<>>, entries[i][1]) = x) - 1]]
                   ELSE IF a = 3 THEN ArrayPayload(<<BoolV(TRUE)>>)
                   ELSE Free]
    /\ regs = [v |-> NoneV, s |-> NoneV, w |-> NoneV]
    /\ res = NoCall
    /\ prev = objs
    /\ log = <<>>

JsonValues == JsonScalars \cup {Handle("Array", 1), Handle("Map", 2), Handle("Array", 3)}

JsonStringify ==
    /\ \E v \in JsonValues, pretty \in {BoolV(FALSE), BoolV(TRUE)} :
         LET out == json_stringify_val(DropParsed(objs), v, pretty)
         IN /\ Returns(out, "json_stringify", <<v, pretty>>)
            /\ regs' = [v |-> v, s |-> out.val, w |-> NoneV]
    /\ UNCHANGED log

JsonParse ==
    /\ LET out == json_parse_val(DropParsed(objs), regs.s)
       IN /\ Returns(out, "json_parse", <<regs.s>>)
          /\ regs' = [regs EXCEPT !.w = out.val]
    /\ UNCHANGED log

NextJson == JsonStringify \/ JsonParse

SpecJson == InitJson /\ [][NextJson]_vars

\* regs.s is the compact serialization of regs.v.
CompactOf(o, s, v) == s = json_stringify_val(o, v, BoolV(FALSE)).val

\* C6: for every value v built only from None, Bool, Int, Float, Str, Array
\* and Map with Str keys, json_parse of json_stringify(v, false) succeeds
\* and gives a value that values_equal holds equal to v.
C6_JsonRoundTrip ==
    (Called("json_parse") /\ CompactOf(objs, regs.s, regs.v)
     /\ ~ContainsNaN(objs, regs.v)) =>
        res.ok /\ values_equal(objs, res.val, regs.v)

(***************************************************************************)
(* Regex: the compiler (rx_compile).  Program counters and pattern         *)
(* positions count from 0 as in the code; insts[pc + 1] is instruction pc. *)
(***************************************************************************)
Lit(c) == [op |-> "Lit", c |-> c]
LitCI(lo, hi) == [op |-> "LitCI", lo |-> lo, hi |-> hi]
Dot == [op |-> "Dot"]
AnchorStart == [op |-> "AnchorStart"]
AnchorEnd == [op |-> "AnchorEnd"]
Class(ranges, neg) == [op |-> "Class", ranges |-> ranges, neg |-> neg]
Split(a, b) == [op |-> "Split", a |-> a, b |-> b]
Jump(t) == [op |-> "Jump", t |-> t]
Match == [op |-> "Match"]

\* The letters of the model, as <<lower case, upper case>>.
CasePairs == {<<"a", "A">>, <<"b", "B">>, <<"d", "D">>, <<"u", "U">>, <<"w", "W">>,
              <<"z", "Z">>, <<"é", "É">>}

is_alphabetic(c) == \E pr \in CasePairs : c \in {pr[1], pr[2]}
to_lowercase(c) == IF \E pr \in CasePairs : pr[2] = c
                   THEN (CHOOSE pr \in CasePairs : pr[2] = c)[1] ELSE c
to_uppercase(c) == IF \E pr \in CasePairs : pr[1] = c
                   THEN (CHOOSE pr \in CasePairs : pr[1] = c)[2] ELSE c

\* chars[*pos] for a 0-based pos.
At(chars, pos) == chars[pos + 1]

\* The '*' / '+' / '?' arms and the fall-through of rx_apply_quant:
\* [pos, target] after the call.
rx_apply_quant(chars, pos, sub, target) ==
    LET lazyAt1 == pos + 1 < Len(chars) /\ At(chars, pos + 1) = "?"
        greedy == ~lazyAt1
        pos2 == IF greedy THEN pos + 1 ELSE pos + 2
        blen == Len(sub)
    IN IF pos < Len(chars) /\ At(chars, pos) = "*" THEN
           LET t1 == Append(target, IF greedy THEN Split(1, blen + 2) ELSE Split(blen + 2, 1))
               t2 == t1 \o sub
               jt == Len(t2) - blen - 1
           IN [pos |-> pos2, target |-> Append(t2, Jump(jt))]
       ELSE IF pos < Len(chars) /\ At(chars, pos) = "+" THEN
           LET start == Len(target)
               t1 == target \o sub
           IN [pos |-> pos2,
               target |-> Append(t1, IF greedy THEN Split(start, Len(t1) + 1)
                                     ELSE Split(Len(t1) + 1, start))]
       ELSE IF pos < Len(chars) /\ At(chars, pos) = "?" THEN
           LET bstart == Len(target) + 1
               after == Len(target) + 1 + blen
           IN [pos |-> pos2,
               target |-> Append(target, IF greedy THEN Split(bstart, after)
                                         ELSE Split(after, bstart)) \o sub]
       ELSE [pos |-> pos, target |-> target \o sub]

RxWordRanges == <<<<"a", "z">>, <<"A", "Z">>, <<"0", "9">>, <<"_", "_">>>>
RxSpaceRanges == <<<<" ", " ">>, <<"\t", "\t">>, <<"\n", "\n">>, <<"\r", "\r">>>>
RxDigitRanges == <<<<"0", "9">>>>

\* The loop of rx_parse_class: [pos, ranges] at the closing bracket or end.
RECURSIVE rx_parse_class_loop(_, _, _)
rx_parse_class_loop(chars, pos, ranges) ==
    IF ~(pos < Len(chars) /\ At(chars, pos) # "]") THEN [pos |-> pos, ranges |-> ranges]
    ELSE LET ch == At(chars, pos)
             escaped == ch = "\\" /\ pos + 1 < Len(chars)
             esc == IF escaped THEN At(chars, pos + 1) ELSE ch
             p1 == IF escaped THEN pos + 2 ELSE pos + 1
         IN IF escaped /\ esc = "d" THEN rx_parse_class_loop(chars, p1, ranges \o RxDigitRanges)
            ELSE IF escaped /\ esc = "w"
                 THEN rx_parse_class_loop(chars, p1, ranges \o RxWordRanges)
            ELSE IF escaped /\ esc = "s"
                 THEN rx_parse_class_loop(chars, p1, ranges \o RxSpaceRanges)
            ELSE IF p1 + 1 < Len(chars) /\ At(chars, p1) = "-" /\ At(chars, p1 + 1) # "]"
                 THEN rx_parse_class_loop(chars, p1 + 2,
                                          Append(ranges, <<esc, At(chars, p1 + 1)>>))
            ELSE rx_parse_class_loop(chars, p1, Append(ranges, <<esc, esc>>))

\* rx_parse_class, pos after the opening bracket: [pos, ranges, neg].
rx_parse_class(chars, pos) ==
    LET neg == pos < Len(chars) /\ At(chars, pos) = "^"
        r == rx_parse_class_loop(chars, IF neg THEN pos + 1 ELSE pos, <<>>)
    IN [pos |-> IF r.pos < Len(chars) /\ At(chars, r.pos) = "]" THEN r.pos + 1 ELSE r.pos,
        ranges |-> r.ranges, neg |-> neg]

RECURSIVE rx_build_alt(_, _, _)
rx_build_alt(branches, idx, out) ==
    IF idx = Len(branches) - 1 THEN out \o branches[idx + 1]
    ELSE LET remaining == rx_build_alt(branches, idx + 1, <<>>)
             blen == Len(branches[idx + 1])
             right == 1 + blen + 1
         IN Append(out, Split(1, right)) \o branches[idx + 1]
            \o <<Jump(right + Len(remaining))>> \o remaining

\* The instructions of a literal character.
rx_literal(c, ci) ==
    IF ci /\ is_alphabetic(c) THEN <<LitCI(to_lowercase(c), to_uppercase(c))>> ELSE <<Lit(c)>>

rx_escape(esc, ci) ==
    IF esc = "d" THEN <<Class(RxDigitRanges, FALSE)>>
    ELSE IF esc = "D" THEN <<Class(RxDigitRanges, TRUE)>>
    ELSE IF esc = "w" THEN <<Class(RxWordRanges, FALSE)>>
    ELSE IF esc = "W" THEN <<Class(RxWordRanges, TRUE)>>
    ELSE IF esc = "s" THEN <<Class(RxSpaceRanges, FALSE)>>
    ELSE IF esc = "S" THEN <<Class(RxSpaceRanges, TRUE)>>
    ELSE rx_literal(esc, ci)

\* [alts EXCEPT last = target]
SetLast(alts, target) == [alts EXCEPT ![Len(alts)] = target]

\* rx_compile_inner: [ok, pos, insts], ok false for the panic on a trailing
\* backslash.  rx_compile_loop is its while loop over the alternatives alts.
RECURSIVE rx_compile_inner(_, _, _, _, _)
RECURSIVE rx_compile_loop(_, _, _, _, _, _)
rx_compile_loop(chars, pos, insts, ci, in_group, alts) ==
    LET last == alts[Len(alts)]
        quant(sub, p) == rx_apply_quant(chars, p, sub, last)
        continue(q) == rx_compile_loop(chars, q.pos, insts, ci, in_group,
                                       SetLast(alts, q.target))
    IN IF ~(pos < Len(chars)) \/ (At(chars, pos) = ")" /\ in_group)
       THEN [ok |-> TRUE, pos |-> pos,
             insts |-> IF Len(alts) = 1 THEN insts \o alts[1] ELSE rx_build_alt(alts, 0, insts)]
       ELSE LET ch == At(chars, pos)
            IN IF ch = "|"
               THEN rx_compile_loop(chars, pos + 1, insts, ci, in_group, Append(alts, <<>>))
               ELSE IF ch = "(" THEN
                   LET g == rx_compile_inner(chars, pos + 1, <<>>, ci, TRUE)
                       p2 == IF g.pos < Len(chars) /\ At(chars, g.pos) = ")"
                             THEN g.pos + 1 ELSE g.pos
                   IN IF ~g.ok THEN [ok |-> FALSE, pos |-> pos, insts |-> insts]
                      ELSE continue(quant(g.insts, p2))
               ELSE IF ch = "[" THEN
                   LET c == rx_parse_class(chars, pos + 1)
                   IN continue(quant(<<Class(c.ranges, c.neg)>>, c.pos))
               ELSE IF ch = "." THEN continue(quant(<<Dot>>, pos + 1))
               ELSE IF ch = "^"
                    THEN continue([pos |-> pos + 1, target |-> Append(last, AnchorStart)])
               ELSE IF ch = "$"
                    THEN continue([pos |-> pos + 1, target |-> Append(last, AnchorEnd)])
               ELSE IF ch = "\\" THEN
                   IF pos + 1 >= Len(chars) THEN [ok |-> FALSE, pos |-> pos, insts |-> insts]
                   ELSE continue(quant(rx_escape(At(chars, pos + 1), ci), pos + 2))
               ELSE continue(quant(rx_literal(ch, ci), pos + 1))

rx_compile_inner(chars, pos, insts, ci, in_group) ==
    rx_compile_loop(chars, pos, insts, ci, in_group, <<<<>>>>)

\* rx_compile: <<TRUE, insts>>, or <<FALSE, <<>>>> for the panic.
rx_compile(pattern, ci) ==
    LET r == rx_compile_inner(pattern, 0, <<>>, ci, FALSE)
    IN IF r.ok THEN <<TRUE, Append(r.insts, Match)>> ELSE <<FALSE, <<>>>>

(***************************************************************************)
(* Regex: the matcher.  A call that recurses without end overflows the     *)
(* stack and ends the process: its result has ok = FALSE.                  *)
(***************************************************************************)
\* rx_add_thread: [ok, threads].  stack holds the <<pc, threads>> of the
\* calls in progress: the call is a function of pc and threads only (pos
\* and insts do not change), so entering one of them again never returns.
RECURSIVE rx_add_thread_in(_, _, _, _, _)
rx_add_thread_in(threads, insts, pc, pos, stack) ==
    IF pc >= Len(insts) \/ \E i \in 1..Len(threads) : threads[i] = pc
    THEN [ok |-> TRUE, threads |-> threads]
    ELSE IF <<pc, threads>> \in stack THEN [ok |-> FALSE, threads |-> threads]
    ELSE LET inst == insts[pc + 1]
             deeper == stack \cup {<<pc, threads>>}
         IN IF inst.op = "Split" THEN
                LET ra == rx_add_thread_in(threads, insts, inst.a, pos, deeper)
                IN IF ~ra.ok THEN ra
                   ELSE rx_add_thread_in(ra.threads, insts, inst.b, pos, deeper)
            ELSE IF inst.op = "Jump" THEN rx_add_thread_in(threads, insts, inst.t, pos, deeper)
            ELSE IF inst.op = "AnchorStart" THEN
                (IF pos = 0 THEN rx_add_thread_in(threads, insts, pc + 1, pos, deeper)
                 ELSE [ok |-> TRUE, threads |-> threads])
            ELSE [ok |-> TRUE, threads |-> Append(threads, pc)]

rx_add_thread(threads, insts, pc, pos) == rx_add_thread_in(threads, insts, pc, pos, {})

\* c >= lo && c <= hi on characters.
InRange(c, lo, hi) == CodePoints[c] >= CodePoints[lo] /\ CodePoints[c] <= CodePoints[hi]

\* The Class arm of rx_match_at: whether the instruction consumes c.
rx_class_takes(inst, c0, ci) ==
    LET c == IF ci THEN to_lowercase(c0) ELSE c0
        in_class == \E i \in 1..Len(inst.ranges) :
                        LET lo == IF ci THEN to_lowercase(inst.ranges[i][1])
                                  ELSE inst.ranges[i][1]
                            hi == IF ci THEN to_lowercase(inst.ranges[i][2])
                                  ELSE inst.ranges[i][2]
                        IN InRange(c, lo, hi)
    IN in_class # inst.neg

\* Whether the thread at pc moves to pc + 1 over the character at p.
rx_consumes(inst, input, p, ci) ==
    /\ p < Len(input)
    /\ \/ inst.op = "Lit" /\ At(input, p) = inst.c
       \/ inst.op = "LitCI" /\ At(input, p) \in {inst.lo, inst.hi}
       \/ inst.op = "Dot" /\ At(input, p) # "\n"
       \/ inst.op = "Class" /\ rx_class_takes(inst, At(input, p), ci)

\* The for loop of rx_match_at over cur[i..]: [ok, nxt, best, adds].
RECURSIVE rx_step(_, _, _, _, _, _, _, _)
rx_step(insts, input, p, ci, cur, i, nxt, acc) ==
    IF i > Len(cur) THEN [ok |-> TRUE, nxt |-> nxt, best |-> acc.best, adds |-> acc.adds]
    ELSE LET pc == cur[i]
         IN IF pc >= Len(insts) THEN rx_step(insts, input, p, ci, cur, i + 1, nxt, acc)
            ELSE LET inst == insts[pc + 1]
                 IN IF inst.op = "Match" THEN
                        rx_step(insts, input, p, ci, cur, i + 1, nxt,
                                [acc EXCEPT !.best = IF @ = <<>> \/ p > @[1] THEN <<p>> ELSE @])
                    ELSE IF inst.op = "AnchorEnd" THEN
                        rx_step(insts, input, p, ci, cur, i + 1, nxt,
                                [acc EXCEPT !.adds = IF p = Len(input) THEN Append(@, pc + 1)
                                                     ELSE @])
                    ELSE IF rx_consumes(inst, input, p, ci) THEN
                        LET r == rx_add_thread(nxt, insts, pc + 1, p + 1)
                        IN IF ~r.ok THEN [ok |-> FALSE, nxt |-> nxt, best |-> acc.best,
                                          adds |-> acc.adds]
                           ELSE rx_step(insts, input, p, ci, cur, i + 1, r.threads, acc)
                    ELSE rx_step(insts, input, p, ci, cur, i + 1, nxt, acc)

\* The deferred AnchorEnd additions to cur: ok unless one overflows the stack.
RECURSIVE rx_apply_adds(_, _, _, _)
rx_apply_adds(cur, insts, adds, p) ==
    IF adds = <<>> THEN TRUE
    ELSE LET r == rx_add_thread(cur, insts, Head(adds), p)
         IN r.ok /\ rx_apply_adds(r.threads, insts, Tail(adds), p)

\* The loop of rx_match_at: [ok, best], best being <<>> (None) or <<end>>.
RECURSIVE rx_match_loop(_, _, _, _, _, _)
rx_match_loop(insts, input, ci, cur, best, p) ==
    IF cur = <<>> THEN [ok |-> TRUE, best |-> best]
    ELSE LET st == rx_step(insts, input, p, ci, cur, 1, <<>>, [best |-> best, adds |-> <<>>])
         IN IF ~st.ok \/ ~rx_apply_adds(cur, insts, st.adds, p)
            THEN [ok |-> FALSE, best |-> best]
            ELSE IF p + 1 > Len(input) + 1 THEN [ok |-> TRUE, best |-> st.best]
            ELSE rx_match_loop(insts, input, ci, st.nxt, st.best, p + 1)

rx_match_at(insts, input, start, ci) ==
    LET r == rx_add_thread(<<>>, insts, 0, start)
    IN IF ~r.ok THEN [ok |-> FALSE, best |-> <<>>]
       ELSE rx_match_loop(insts, input, ci, r.threads, <<>>, start)

\* results of rx_find_all from position p on: [ok, results].
RECURSIVE rx_find_all_from(_, _, _, _, _)
rx_find_all_from(insts, chars, ci, p, results) ==
    IF ~(p <= Len(chars)) THEN [ok |-> TRUE, results |-> results]
    ELSE LET m == rx_match_at(insts, chars, p, ci)
         IN IF ~m.ok THEN [ok |-> FALSE, results |-> results]
            ELSE IF m.best # <<>> /\ m.best[1] > p
                 THEN rx_find_all_from(insts, chars, ci, m.best[1],
                                       Append(results, SubSeq(chars, p + 1, m.best[1])))
            ELSE rx_find_all_from(insts, chars, ci, p + 1, results)

rx_find_all(insts, input, ci) == rx_find_all_from(insts, input, ci, 0, <<>>)

\* parts of rx_split from position p on: [ok, results].
RECURSIVE rx_split_from(_, _, _, _, _, _)
rx_split_from(insts, chars, ci, p, last, parts) ==
    IF ~(p < Len(chars))
    THEN [ok |-> TRUE, results |-> Append(parts, SubSeq(chars, last + 1, Len(chars)))]
    ELSE LET m == rx_match_at(insts, chars, p, ci)
         IN IF ~m.ok THEN [ok |-> FALSE, results |-> parts]
            ELSE IF m.best # <<>> /\ m.best[1] > p
                 THEN rx_split_from(insts, chars, ci, m.best[1], m.best[1],
                                    Append(parts, SubSeq(chars, last + 1, p)))
            ELSE rx_split_from(insts, chars, ci, p + 1, last, parts)

rx_split(insts, input, ci) == rx_split_from(insts, input, ci, 0, 0, <<>>)

\* rx_get_flags
rx_get_flags(flags) == flags.t = "Str" /\ \E i \in 1..Len(flags.s) : flags.s[i] = "i"

\* The process has ended (stack overflow); no call follows.
Abort(o) == [ok |-> FALSE, val |-> [t |-> "Abort"], objs |-> o]
Alive == res.val # [t |-> "Abort"]

StrArray(o, strs) == make_array(o, [i \in 1..Len(strs) |-> StrV(strs[i])])

regex_find_all_val(o, string, pattern, flags) ==
    IF string.t # "Str" \/ pattern.t # "Str" THEN Panic(o)
    ELSE LET ci == rx_get_flags(flags)
             c == rx_compile(pattern.s, ci)
         IN IF ~c[1] THEN Panic(o)
            ELSE IF ~rx_find_all(c[2], string.s, ci).ok THEN Abort(o)
            ELSE StrArray(o, rx_find_all(c[2], string.s, ci).results)

regex_split_val(o, string, pattern, flags) ==
    IF string.t # "Str" \/ pattern.t # "Str" THEN Panic(o)
    ELSE LET ci == rx_get_flags(flags)
             c == rx_compile(pattern.s, ci)
         IN IF ~c[1] THEN Panic(o)
            ELSE IF ~rx_split(c[2], string.s, ci).ok THEN Abort(o)
            ELSE StrArray(o, rx_split(c[2], string.s, ci).results)

\* rx_search from start offset s on: [ok, found].
RECURSIVE rx_search_from(_, _, _, _)
rx_search_from(insts, chars, ci, s) ==
    IF s > Len(chars) THEN [ok |-> TRUE, found |-> FALSE]
    ELSE LET m == rx_match_at(insts, chars, s, ci)
         IN IF ~m.ok THEN [ok |-> FALSE, found |-> FALSE]
            ELSE IF m.best # <<>> THEN [ok |-> TRUE, found |-> TRUE]
            ELSE rx_search_from(insts, chars, ci, s + 1)

rx_search(insts, input, ci) == rx_search_from(insts, input, ci, 0)

regex_match_val(o, string, pattern, flags) ==
    IF string.t # "Str" \/ pattern.t # "Str" THEN Panic(o)
    ELSE LET ci == rx_get_flags(flags)
             c == rx_compile(pattern.s, ci)
         IN IF ~c[1] THEN Panic(o)
            ELSE IF ~rx_search(c[2], string.s, ci).ok THEN Abort(o)
            ELSE Ok(BoolV(rx_search(c[2], string.s, ci).found), o)

(***************************************************************************)
(* SpecRegex: regex_find_all and regex_split of an input s under a         *)
(* pattern p and flags f.                                                  *)
(***************************************************************************)
MaxPat == 3

RxAlphabet == {"a", "b", "*", "+", "?", "|", "(", ")"}

RxPatterns ==
    UNION {[1..n -> RxAlphabet] : n \in 0..MaxPat}
    \cup {<<"a", "$">>, <<"^", "a">>, <<".", "b">>, <<"[", "a", "-", "b", "]", "+">>,
          <<"\\", "w", "+">>, <<"a", "\\">>, <<"(", "a", "|", "b", ")", "*">>,
          <<"a", "|", "b", "|", "a", "b">>, <<"a", "+", "?", "b">>}

RxInputs == {<<>>, <<"a">>, <<"b">>, <<"a", "b">>, <<"b", "a">>, <<"a", "a">>,
             <<"a", "a", "b">>, <<"A", "b">>}

RxFlags == {StrV(<<>>), StrV(<<"i">>)}

InitRegex ==
    /\ objs = <<Free>>
    /\ \E s \in RxInputs, p \in RxPatterns, f \in RxFlags :
         regs = [s |-> StrV(s), p |-> StrV(p), f |-> f, r |-> NoneV]
    /\ res = NoCall
    /\ prev = objs
    /\ log = <<>>

RegexFindAll ==
    /\ Alive
    /\ LET out == regex_find_all_val(Release(objs, regs.r), regs.s, regs.p, regs.f)
       IN /\ Returns(out, "regex_find_all", <<regs.s, regs.p, regs.f>>)
          /\ regs' = [regs EXCEPT !.r = IF out.ok THEN out.val ELSE NoneV]
    /\ UNCHANGED log

RegexSplit ==
    /\ Alive
    /\ LET out == regex_split_val(Release(objs, regs.r), regs.s, regs.p, regs.f)
       IN /\ Returns(out, "regex_split", <<regs.s, regs.p, regs.f>>)
          /\ regs' = [regs EXCEPT !.r = IF out.ok THEN out.val ELSE NoneV]
    /\ UNCHANGED log

NextRegex == RegexFindAll \/ RegexSplit

SpecRegex == InitRegex /\ [][NextRegex]_vars

\* piece_0, match_0, piece_1, match_1, ..., piece_n
RECURSIVE Interleave(_, _)
Interleave(pieces, matches) ==
    IF matches = <<>> THEN Head(pieces)
    ELSE Head(pieces) \o Head(matches) \o Interleave(Tail(pieces), Tail(matches))

\* The strings of the Array a call returned.
ReturnedStrings == [i \in 1..Len(objs[res.val.ref].items) |-> objs[res.val.ref].items[i].s]

\* C7: for every input s and every pattern p (that compiles),
\* regex_find_all and regex_split return, split returns one more piece than
\* find_all returns matches, and piece_0, match_0, ..., piece_n put
\* together are s.
C7_FindAllSplitReconstruct ==
    (/\ res.call \in {"regex_find_all", "regex_split"}
     /\ rx_compile(regs.p.s, rx_get_flags(regs.f))[1]) =>
        LET insts == rx_compile(regs.p.s, rx_get_flags(regs.f))[2]
            found == rx_find_all(insts, regs.s.s, rx_get_flags(regs.f))
            split == rx_split(insts, regs.s.s, rx_get_flags(regs.f))
        IN /\ res.ok /\ found.ok /\ split.ok
           /\ ReturnedStrings = (IF res.call = "regex_split" THEN split.results
                                 ELSE found.results)
           /\ Len(split.results) = Len(found.results) + 1
           /\ Interleave(split.results, found.results) = regs.s.s

(***************************************************************************)
(* Slicing.                                                                *)
(***************************************************************************)
resolve_slice_index_no_negative(idx, len) ==
    IF idx < 0 THEN 0 ELSE IF idx > len THEN len ELSE idx

resolve_slice_index(idx, len) ==
    LET resolved == IF idx < 0 THEN len + idx ELSE idx
    IN IF resolved < 0 THEN 0 ELSE IF resolved > len THEN len ELSE resolved

\* a[s..e] for 0-based s < e.
SliceOf(items, s, e) == IF s >= e THEN <<>> ELSE SubSeq(items, s + 1, e)

array_slice(o, arr, start, end) ==
    IF IsKind(o, arr, "Array") \/ arr.t = "Str"
    THEN IF as_int(start)[1] /\ as_int(end)[1]
         THEN LET items == IF arr.t = "Str" THEN arr.s ELSE o[arr.ref].items
                  s == resolve_slice_index(i64_clip(as_int(start)[2]), Len(items))
                  e == resolve_slice_index(i64_clip(as_int(end)[2]), Len(items))
              IN IF arr.t = "Str" THEN Ok(StrV(SliceOf(items, s, e)), o)
                 ELSE make_array(o, SliceOf(items, s, e))
         ELSE Panic(o)
    ELSE Panic(o)

(***************************************************************************)
(* SpecSlice: array_slice on an Array that array_push grows (element k is  *)
(* Int 10 + k) and on a Str, with Int and non-Int bounds.                  *)
(***************************************************************************)
MaxSlice == 3

\* The Int bounds reach two past either end of the longest Array.
SliceBounds == {IntV(k) : k \in (0 - MaxSlice - 2)..(MaxSlice + 2)}
               \cup {FloatV(3), StrV(<<"x">>)}

InitSlice ==
    /\ objs = <<ArrayPayload(<<>>), Free>>
    /\ regs = [a |-> Handle("Array", 1), r |-> NoneV]
    /\ res = NoCall
    /\ prev = objs
    /\ log = <<>>

SliceArrayPush ==
    /\ Len(objs[1].items) < MaxSlice
    /\ LET value == IntV(10 + Len(objs[1].items))
       IN Returns(array_push(objs, regs.a, value), "array_push", <<regs.a, value>>)
    /\ UNCHANGED <<regs, log>>

ArraySlice ==
    /\ \E arr \in {regs.a, StrV(<<"a", "b", "c">>)},
          start \in SliceBounds, end \in SliceBounds :
         LET out == array_slice(Release(objs, regs.r), arr, start, end)
         IN /\ Returns(out, "array_slice", <<arr, start, end>>)
            /\ regs' = [regs EXCEPT !.r = IF out.ok /\ arr = regs.a THEN out.val ELSE NoneV]
    /\ UNCHANGED log

NextSlice == SliceArrayPush \/ ArraySlice

SpecSlice == InitSlice /\ [][NextSlice]_vars

\* clamp(k): n added to a negative k, the result limited to [0, n].
Clamp(k, n) ==
    LET r == IF k < 0 THEN k + n ELSE k
    IN IF r < 0 THEN 0 ELSE IF r > n THEN n ELSE r

Max(x, y) == IF x >= y THEN x ELSE y

\* C8: for every Array a of length n and all Int i, j, array_slice(a, i, j)
\* succeeds, its length is max(0, clamp(j) - clamp(i)), and it holds
\* a[clamp(i)] .. a[clamp(j) - 1] in order.
C8_SliceClamps ==
    (/\ Called("array_slice")
     /\ res.args[1].t = "Array" /\ res.args[2].t = "Int" /\ res.args[3].t = "Int") =>
        LET a == objs[res.args[1].ref].items
            n == Len(a)
            ci == Clamp(res.args[2].n, n)
            cj == Clamp(res.args[3].n, n)
        IN /\ res.ok
           /\ IsKind(objs, res.val, "Array")
           /\ Len(objs[res.val.ref].items) = Max(0, cj - ci)
           /\ \A k \in 1..Len(objs[res.val.ref].items) :
                  objs[res.val.ref].items[k] = a[ci + k]

\* A slice with a negative start and an end past the length: the last two
\* of three elements.
C8_Witness ==
    /\ Succeeded("array_slice")
    /\ res.args = <<Handle("Array", 1), IntV(-2), IntV(5)>>
    /\ Len(objs[1].items) = 3
    /\ Len(objs[res.val.ref].items) = 2

(***************************************************************************)
(* Record and Deque operations.                                            *)
(***************************************************************************)
\* make_record: a fresh Record handle holding the fields (<<name, value>>).
RECURSIVE make_record_fields(_, _, _)
make_record_fields(o, map, fields) ==
    IF fields = <<>> THEN map
    ELSE make_record_fields(o, OrderedMap_set(o, map, StrV(Head(fields)[1]), Head(fields)[2]),
                            Tail(fields))

make_record(o, fields) ==
    Ok(Handle("Record", NewAddr(o)),
       [o EXCEPT ![NewAddr(o)] = make_record_fields(o, OrderedMap_new("Record"), fields)])

get_field(o, record, field) ==
    IF IsKind(o, record, "Record")
    THEN (IF OrderedMap_get(o, o[record.ref], StrV(field))[1]
          THEN Ok(OrderedMap_get(o, o[record.ref], StrV(field))[2], o)
          ELSE Panic(o))
    ELSE Panic(o)

set_field(o, record, field, value) ==
    IF IsKind(o, record, "Record")
    THEN Ok(Unit, [o EXCEPT ![record.ref] = OrderedMap_set(o, @, StrV(field), value)])
    ELSE Panic(o)

deque_new(o) ==
    Ok(Handle("Deque", NewAddr(o)), [o EXCEPT ![NewAddr(o)] = [k |-> "Deque", items |-> <<>>]])

deque_push_back(o, dq, value) ==
    IF IsKind(o, dq, "Deque") THEN Ok(Unit, [o EXCEPT ![dq.ref].items = Append(@, value)])
    ELSE Panic(o)

\* A push_front that adds at the back.
deque_push_front_at_back(o, dq, value) ==
    IF IsKind(o, dq, "Deque") THEN Ok(Unit, [o EXCEPT ![dq.ref].items = Append(@, value)])
    ELSE Panic(o)

deque_push_front(o, dq, value) ==
    IF IsKind(o, dq, "Deque") THEN Ok(Unit, [o EXCEPT ![dq.ref].items = <<value>> \o @])
    ELSE Panic(o)

deque_pop_front(o, dq) ==
    IF IsKind(o, dq, "Deque") /\ o[dq.ref].items # <<>>
    THEN Ok(Head(o[dq.ref].items), [o EXCEPT ![dq.ref].items = Tail(@)])
    ELSE Panic(o)

deque_pop_back(o, dq) ==
    IF IsKind(o, dq, "Deque") /\ o[dq.ref].items # <<>>
    THEN Ok(o[dq.ref].items[Len(o[dq.ref].items)],
            [o EXCEPT ![dq.ref].items = SubSeq(@, 1, Len(@) - 1)])
    ELSE Panic(o)

deque_size(o, dq) ==
    IF IsKind(o, dq, "Deque") THEN Ok(IntV(Len(o[dq.ref].items)), o) ELSE Panic(o)

(***************************************************************************)
(* Spec: one container of any kind behind the program variable v1, a       *)
(* second variable v2 that is None until the program clones v1 into it,    *)
(* and every container operation applied through either variable (so also  *)
(* to None and to a container of another kind).  regs.via names the        *)
(* variable of the last call; log lists the successful calls that can grow *)
(* a container, each with its variable and whether v2 was a clone then.    *)
(***************************************************************************)
MaxOps == 2

\* A copy of the payload behind a new handle, where the code copies the Rc.
Value_clone_deep(o, v) ==
    IF HasField(v, "ref")
    THEN Ok(Handle(v.t, NewAddr(o)), [o EXCEPT ![NewAddr(o)] = o[v.ref]])
    ELSE Ok(v, o)

\* Value::clone (derived): a scalar is copied, a container variant copies
\* its Rc, the handle of the same payload.
Value_clone(o, v) == Ok(v, o)

Vars == {"v1", "v2"}
Vals == {IntV(1), IntV(2)}
Keys == {StrV(<<"a">>), IntV(1)}
Fields == {<<"x">>, <<"y">>}
Indexes == {IntV(0), IntV(-1), IntV(5), StrV(<<"x">>)}
Prios == {IntV(1), IntV(2), StrV(<<"x">>)}

Init ==
    /\ \E c \in {ArrayPayload(<<>>), OrderedMap_new("Map"), OrderedSet_new,
                 make_record(<<Free>>, <<<<<<"x">>, IntV(0)>>>>).objs[1],
                 deque_new(<<Free>>).objs[1], CoreILHeap_new} :
         /\ objs = <<c, Free>>
         /\ regs = [v1 |-> Handle(c.k, 1), v2 |-> NoneV, via |-> "v1"]
    /\ res = NoCall
    /\ prev = objs
    /\ log = <<>>

Cloned == regs.v2 # NoneV

\* A call through the variable via that does not grow a container.
Call(out, call, args, via) ==
    /\ Returns(out, call, args)
    /\ regs' = [regs EXCEPT !.via = via]
    /\ UNCHANGED log

\* A call through the variable via that can grow a container.
Grow(out, call, args, via) ==
    /\ Len(log) < MaxOps
    /\ Returns(out, call, args)
    /\ regs' = [regs EXCEPT !.via = via]
    /\ log' = IF out.ok THEN Append(log, [call |-> call, via |-> via, cloned |-> Cloned])
              ELSE log

CloneValue ==
    /\ ~Cloned
    /\ LET out == Value_clone(objs, regs.v1)
       IN /\ Returns(out, "clone", <<regs.v1>>)
          /\ regs' = [regs EXCEPT !.v2 = out.val, !.via = "v1"]
    /\ UNCHANGED log

DoArrayPush ==
    \E via \in Vars, value \in Vals :
        Grow(array_push(objs, regs[via], value), "array_push", <<regs[via], value>>, via)

DoArraySetIndex ==
    \E via \in Vars, index \in Indexes, value \in Vals :
        Call(array_set_index(objs, regs[via], index, value), "array_set_index",
             <<regs[via], index, value>>, via)

DoArrayIndex ==
    \E via \in Vars, index \in Indexes :
        Call(array_index(objs, regs[via], index), "array_index", <<regs[via], index>>, via)

DoArrayLength ==
    \E via \in Vars :
        Call(array_length(objs, regs[via]), "array_length", <<regs[via]>>, via)

DoMapSet ==
    \E via \in Vars, key \in Keys, value \in Vals :
        Grow(map_set(objs, regs[via], key, value), "map_set", <<regs[via], key, value>>, via)

DoMapGet ==
    \E via \in Vars, key \in Keys :
        Call(map_get(objs, regs[via], key), "map_get", <<regs[via], key>>, via)

DoSetAdd ==
    \E via \in Vars, item \in Vals :
        Grow(set_add(objs, regs[via], item), "set_add", <<regs[via], item>>, via)

DoSetRemove ==
    \E via \in Vars, item \in Vals :
        Call(set_remove(objs, regs[via], item), "set_remove", <<regs[via], item>>, via)

DoSetHas ==
    \E via \in Vars, item \in Vals :
        Call(set_has(objs, regs[via], item), "set_has", <<regs[via], item>>, via)

DoSetSize ==
    \E via \in Vars : Call(set_size(objs, regs[via]), "set_size", <<regs[via]>>, via)

DoSetField ==
    \E via \in Vars, field \in Fields, value \in Vals :
        Grow(set_field(objs, regs[via], field, value), "set_field",
             <<regs[via], field, value>>, via)

DoGetField ==
    \E via \in Vars, field \in Fields :
        Call(get_field(objs, regs[via], field), "get_field", <<regs[via], field>>, via)

DoDequePushBack ==
    \E via \in Vars, value \in Vals :
        Grow(deque_push_back(objs, regs[via], value), "deque_push_back",
             <<regs[via], value>>, via)

DoDequePushFront ==
    \E via \in Vars, value \in Vals :
        Grow(deque_push_front(objs, regs[via], value), "deque_push_front",
             <<regs[via], value>>, via)

DoDequePopFront ==
    \E via \in Vars :
        Call(deque_pop_front(objs, regs[via]), "deque_pop_front", <<regs[via]>>, via)

DoDequePopBack ==
    \E via \in Vars :
        Call(deque_pop_back(objs, regs[via]), "deque_pop_back", <<regs[via]>>, via)

DoDequeSize ==
    \E via \in Vars : Call(deque_size(objs, regs[via]), "deque_size", <<regs[via]>>, via)

DoHeapPush ==
    \E via \in Vars, priority \in Prios, value \in Vals :
        Grow(heap_push(objs, regs[via], priority, value), "heap_push",
             <<regs[via], priority, value>>, via)

DoHeapPop ==
    \E via \in Vars : \E out \in heap_pop(objs, regs[via]) :
        Call(out, "heap_pop", <<regs[via]>>, via)

DoHeapPeek ==
    \E via \in Vars : \E out \in heap_peek(objs, regs[via]) :
        Call(out, "heap_peek", <<regs[via]>>, via)

DoHeapSize ==
    \E via \in Vars : Call(heap_size(objs, regs[via]), "heap_size", <<regs[via]>>, via)

Next ==
    \/ CloneValue
    \/ DoArrayPush \/ DoArraySetIndex \/ DoArrayIndex \/ DoArrayLength
    \/ DoMapSet \/ DoMapGet
    \/ DoSetAdd \/ DoSetRemove \/ DoSetHas \/ DoSetSize
    \/ DoSetField \/ DoGetField
    \/ DoDequePushBack \/ DoDequePushFront \/ DoDequePopFront \/ DoDequePopBack
    \/ DoDequeSize
    \/ DoHeapPush \/ DoHeapPop \/ DoHeapPeek \/ DoHeapSize

Spec == Init /\ [][Next]_vars

\* C9: a runtime operation that fails leaves every container unchanged
\* (array_push or map_set on the wrong variant, array_set_index out of
\* range, heap_push with a non-numeric priority, map_get of a missing key,
\* pop or peek on an empty deque or heap, and every other failing call).
C9_FailureLeavesContainers == ~res.ok => objs = prev

\* A failing call on a container that has contents to lose.
C9_Witness ==
    \/ /\ Failed("array_set_index") /\ IsKind(objs, res.args[1], "Array")
       /\ objs[1].items # <<>> /\ res.args[2] = IntV(5)
    \/ /\ Failed("heap_push") /\ IsKind(objs, res.args[1], "Heap")
       /\ objs[1].heap # {}

\* The outcomes of the read call with the arguments args.
ReadOutcomes(o, call, args) ==
    CASE call = "array_index" -> {array_index(o, args[1], args[2])}
      [] call = "array_length" -> {array_length(o, args[1])}
      [] call = "map_get" -> {map_get(o, args[1], args[2])}
      [] call = "set_has" -> {set_has(o, args[1], args[2])}
      [] call = "set_size" -> {set_size(o, args[1])}
      [] call = "get_field" -> {get_field(o, args[1], args[2])}
      [] call = "deque_size" -> {deque_size(o, args[1])}
      [] call = "heap_peek" -> heap_peek(o, args[1])
      [] call = "heap_size" -> {heap_size(o, args[1])}

ReadCalls == {"array_index", "array_length", "map_get", "set_has", "set_size", "get_field",
              "deque_size", "heap_peek", "heap_size"}

\* The variable the last call did not go through.
OtherVar == IF regs.via = "v1" THEN "v2" ELSE "v1"

\* What a variable's handle shows: the payload behind it.
Observe(o, v) == IF HasField(v, "ref") THEN o[v.ref] ELSE v

\* C10: once v2 is a clone of the container value v1, the two variables
\* show the same contents after every call (so a mutation through one is
\* what the other shows), and a read through one variable gives what the
\* same read through the other gives.
C10_SharedHandles ==
    Cloned =>
        /\ Observe(objs, regs.v2) = Observe(objs, regs.v1)
        /\ res.call \in ReadCalls =>
              \E out \in ReadOutcomes(objs, res.call,
                                      [res.args EXCEPT ![1] = regs[OtherVar]]) :
                  out.ok = res.ok /\ out.val = res.val

\* After the clone, the one successful growing call through v1, then a read
\* through v2 whose result that call changed.
C10_Witness ==
    /\ Cloned /\ regs.via = "v2"
    /\ Len(log) = 1 /\ log[1].cloned /\ log[1].via = "v1"
    /\ \/ Succeeded("array_length") /\ res.val = IntV(1)
       \/ Succeeded("deque_size") /\ res.val = IntV(1)
       \/ Succeeded("heap_size") /\ res.val = IntV(1)
       \/ Succeeded("set_size") /\ res.val = IntV(1)
       \/ Succeeded("map_get")
       \/ Succeeded("get_field") /\ res.args[2] = <<"y">>

(***************************************************************************)
(* SpecIndex: array_index on an Array, a Tuple and a Str and               *)
(* array_set_index on the Array, with Int indexes reaching past both ends. *)
(* The Array grows by array_push; the Tuple and the Str are the operands   *)
(* the program was given.                                                  *)
(***************************************************************************)
MaxIndex == 3

make_tuple(items) == TupleV(items)

IndexChars == <<"a", "b", "c", "d", "e">>

\* The Int indexes reach two past either end of the longest sequence.
IndexVals == {IntV(k) : k \in (0 - MaxIndex - 2)..(MaxIndex + 2)}

IndexElems == {IntV(0), StrV(<<"z">>)}

InitIndex ==
    /\ objs = <<ArrayPayload(<<>>)>>
    /\ \E n \in 0..MaxIndex, m \in 0..MaxIndex :
         regs = [a |-> Handle("Array", 1),
                 t |-> make_tuple([k \in 1..n |-> IntV(20 + k)]),
                 s |-> StrV(SubSeq(IndexChars, 1, m))]
    /\ res = NoCall
    /\ prev = objs
    /\ log = <<>>

IndexArrayPush ==
    /\ Len(objs[1].items) < MaxIndex
    /\ \E value \in IndexElems :
         Returns(array_push(objs, regs.a, value), "array_push", <<regs.a, value>>)
    /\ UNCHANGED <<regs, log>>

ArrayIndex ==
    /\ \E arr \in {regs.a, regs.t, regs.s, NoneV}, index \in IndexVals :
         Returns(array_index(objs, arr, index), "array_index", <<arr, index>>)
    /\ UNCHANGED <<regs, log>>

ArraySetIndex ==
    /\ \E arr \in {regs.a, regs.t}, index \in IndexVals, value \in IndexElems :
         Returns(array_set_index(objs, arr, index, value), "array_set_index",
                 <<arr, index, value>>)
    /\ UNCHANGED <<regs, log>>

NextIndex == IndexArrayPush \/ ArrayIndex \/ ArraySetIndex

SpecIndex == InitIndex /\ [][NextIndex]_vars

\* The elements of an Array, a Tuple or a Str (its characters as Strs).
ElementsOf(o, v) ==
    IF v.t = "Array" THEN o[v.ref].items
    ELSE IF v.t = "Tuple" THEN v.items
    ELSE [k \in 1..Len(v.s) |-> StrV(<<v.s[k]>>)]

\* The 1-based position an index i names in a sequence of length n, 0 when
\* it names none.
PositionOf(i, n) ==
    IF 0 <= i /\ i < n THEN i + 1
    ELSE IF 0 - n <= i /\ i < 0 THEN n + i + 1
    ELSE 0

\* C11: on an Array, Tuple or Str of length n and an Int index i,
\* array_index returns the element at i when 0 <= i < n, the element at
\* n + i when -n <= i < 0, and fails for every other i; array_set_index on
\* an Array writes the position found by the same rule, or fails.
C11_IndexResolution ==
    /\ (/\ Called("array_index")
        /\ res.args[1].t \in {"Array", "Tuple", "Str"} /\ res.args[2].t = "Int") =>
           LET items == ElementsOf(prev, res.args[1])
               pos == PositionOf(res.args[2].n, Len(items))
           IN /\ objs = prev
              /\ res.ok = (pos # 0)
              /\ pos # 0 => res.val = items[pos]
    /\ (/\ Called("array_set_index")
        /\ res.args[1].t = "Array" /\ res.args[2].t = "Int") =>
           LET items == prev[res.args[1].ref].items
               pos == PositionOf(res.args[2].n, Len(items))
           IN /\ res.ok = (pos # 0)
              /\ pos = 0 => objs = prev
              /\ pos # 0 =>
                    objs = [prev EXCEPT ![res.args[1].ref].items[pos] = res.args[3]]

\* Index -1 read from a Str of three characters and index -3 written to an
\* Array of three elements.
C11_Witness ==
    \/ /\ Succeeded("array_index")
       /\ res.args = <<StrV(<<"a", "b", "c">>), IntV(-1)>>
       /\ res.val = StrV(<<"c">>)
    \/ /\ Succeeded("array_set_index")
       /\ res.args[2] = IntV(-3)
       /\ Len(prev[1].items) = 3
       /\ objs[1].items[1] = res.args[3] /\ prev[1].items[1] # res.args[3]

(***************************************************************************)
(* SpecJsonText: json_parse of an arbitrary short text.                    *)
(***************************************************************************)
MaxJsonText == 4

JsonAlphabet == {"0", "1", "-", " ", "\f", ",", "[", "]", "\"", "\\", "a", "{", "}", ":"}

JsonTexts == UNION {[1..n -> JsonAlphabet] : n \in 0..MaxJsonText}

InitJsonText ==
    /\ objs = [a \in 1..MaxJsonText |-> Free]
    /\ \E s \in JsonTexts : regs = [s |-> StrV(s), w |-> NoneV]
    /\ res = NoCall
    /\ prev = objs
    /\ log = <<>>

JsonParseText ==
    /\ res = NoCall
    /\ LET out == json_parse_val(objs, regs.s)
       IN /\ Returns(out, "json_parse", <<regs.s>>)
          /\ regs' = [regs EXCEPT !.w = out.val]
    /\ UNCHANGED log

NextJsonText == JsonParseText

SpecJsonText == InitJsonText /\ [][NextJsonText]_vars

\* The JSON grammar (RFC 8259), as a recognizer: each ...End operator gives
\* the position after the construct that starts at position i, 0 when none
\* starts there.
JsonCh(s, i) == IF i >= 1 /\ i <= Len(s) THEN s[i] ELSE ""

\* Whitespace is ASCII whitespace, as the lexer is specified to skip it.
RECURSIVE JsonSkipWs(_, _)
JsonSkipWs(s, i) ==
    IF JsonCh(s, i) \in {" ", "\t", "\n", "\f", "\r"} THEN JsonSkipWs(s, i + 1) ELSE i

JsonNumberEnd(s, i) ==
    LET p1 == IF JsonCh(s, i) = "-" THEN i + 1 ELSE i
        p2 == IF JsonCh(s, p1) = "0" THEN p1 + 1
              ELSE IF IsDigit(JsonCh(s, p1)) THEN skip_digits(s, p1) ELSE 0
        p3 == IF p2 = 0 THEN 0
              ELSE IF JsonCh(s, p2) # "." THEN p2
              ELSE IF IsDigit(JsonCh(s, p2 + 1)) THEN skip_digits(s, p2 + 1) ELSE 0
        q  == IF JsonCh(s, p3 + 1) \in {"+", "-"} THEN p3 + 2 ELSE p3 + 1
    IN IF p3 = 0 THEN 0
       ELSE IF JsonCh(s, p3) \notin {"e", "E"} THEN p3
       ELSE IF IsDigit(JsonCh(s, q)) THEN skip_digits(s, q) ELSE 0

\* i is a position inside a string, after its opening quote.
RECURSIVE JsonStringBody(_, _)
JsonStringBody(s, i) ==
    IF i > Len(s) THEN 0
    ELSE IF s[i] = "\"" THEN i + 1
    ELSE IF s[i] = "\\"
         THEN IF JsonCh(s, i + 1) \in {"\"", "\\", "/", "b", "f", "n", "r", "t"}
              THEN JsonStringBody(s, i + 2)
              ELSE IF JsonCh(s, i + 1) = "u"
                      /\ \A k \in 2..5 : HexValue(JsonCh(s, i + k)) >= 0
                   THEN JsonStringBody(s, i + 6)
              ELSE 0
    ELSE IF IsControl(s[i]) THEN 0
    ELSE JsonStringBody(s, i + 1)

JsonStringEnd(s, i) == IF JsonCh(s, i) = "\"" THEN JsonStringBody(s, i + 1) ELSE 0

JsonWordEnd(s, i, word) ==
    IF i + Len(word) - 1 <= Len(s) /\ SubSeq(s, i, i + Len(word) - 1) = word
    THEN i + Len(word) ELSE 0

RECURSIVE JsonValueEnd(_, _)
RECURSIVE JsonElementsEnd(_, _)
RECURSIVE JsonMembersEnd(_, _)

JsonValueEnd(s, i) ==
    LET c == JsonCh(s, i)
        j == JsonSkipWs(s, i + 1)
    IN IF c = "[" THEN (IF JsonCh(s, j) = "]" THEN j + 1 ELSE JsonElementsEnd(s, j))
       ELSE IF c = "{" THEN (IF JsonCh(s, j) = "}" THEN j + 1 ELSE JsonMembersEnd(s, j))
       ELSE IF c = "\"" THEN JsonStringEnd(s, i)
       ELSE IF c = "t" THEN JsonWordEnd(s, i, <<"t", "r", "u", "e">>)
       ELSE IF c = "f" THEN JsonWordEnd(s, i, <<"f", "a", "l", "s", "e">>)
       ELSE IF c = "n" THEN JsonWordEnd(s, i, <<"n", "u", "l", "l">>)
       ELSE IF c = "-" \/ IsDigit(c) THEN JsonNumberEnd(s, i)
       ELSE 0

\* i is the position of an element; the result is the position after the
\* closing bracket.
JsonElementsEnd(s, i) ==
    LET e == JsonValueEnd(s, i)
        k == JsonSkipWs(s, e)
    IN IF e = 0 THEN 0
       ELSE IF JsonCh(s, k) = "," THEN JsonElementsEnd(s, JsonSkipWs(s, k + 1))
       ELSE IF JsonCh(s, k) = "]" THEN k + 1
       ELSE 0

\* i is the position of a member's key; the result is the position after
\* the closing brace.
JsonMembersEnd(s, i) ==
    LET e == JsonStringEnd(s, i)
        c == JsonSkipWs(s, e)
        v == IF e # 0 /\ JsonCh(s, c) = ":" THEN JsonValueEnd(s, JsonSkipWs(s, c + 1)) ELSE 0
        k == JsonSkipWs(s, v)
    IN IF v = 0 THEN 0
       ELSE IF JsonCh(s, k) = "," THEN JsonMembersEnd(s, JsonSkipWs(s, k + 1))
       ELSE IF JsonCh(s, k) = "}" THEN k + 1
       ELSE 0

\* s is exactly one JSON value, with optional whitespace around it.
IsJsonText(s) ==
    LET e == JsonValueEnd(s, JsonSkipWs(s, 1))
    IN e # 0 /\ JsonSkipWs(s, e) = Len(s) + 1

\* C12: json_parse fails on every input that is not exactly one well-formed
\* JSON value.
C12_ParseRejectsMalformed ==
    (Called("json_parse") /\ ~IsJsonText(res.args[1].s)) => ~res.ok

(***************************************************************************)
(* SpecRegexSem: regex_match and regex_find_all of an input under patterns *)
(* built from literals, `$`, quantifiers, groups and alternation.  Each    *)
(* pattern is the rendering of a syntax tree, and the tree gives the       *)
(* pattern's standard meaning to compare the engine with.                  *)
(***************************************************************************)
MaxWord == 2

RxLit(c) == [op |-> "lit", c |-> c]
RxEnd == [op |-> "end"]
RxSeq(xs) == [op |-> "seq", xs |-> xs]
RxAlt(xs) == [op |-> "alt", xs |-> xs]
RxGrp(x) == [op |-> "grp", x |-> x]
RxRep(x, q, lazy) == [op |-> "rep", x |-> x, q |-> q, lazy |-> lazy]

RxLits == {"a", "b"}

RxWords(n) == UNION {[1..k -> RxLits] : k \in 0..n}

RxWord(w) == RxSeq([k \in 1..Len(w) |-> RxLit(w[k])])

\* The pattern text of a tree.
RECURSIVE RxRender(_)
RECURSIVE RxRenderAll(_, _)
RxRender(r) ==
    IF r.op = "lit" THEN <<r.c>>
    ELSE IF r.op = "end" THEN <<"$">>
    ELSE IF r.op = "seq" THEN RxRenderAll(r.xs, <<>>)
    ELSE IF r.op = "alt" THEN RxRenderAll(r.xs, <<"|">>)
    ELSE IF r.op = "grp" THEN <<"(">> \o RxRender(r.x) \o <<")">>
    ELSE RxRender(r.x) \o <<r.q>> \o (IF r.lazy THEN <<"?">> ELSE <<>>)

RxRenderAll(xs, sep) ==
    IF xs = <<>> THEN <<>>
    ELSE IF Len(xs) = 1 THEN RxRender(xs[1])
    ELSE RxRender(xs[1]) \o sep \o RxRenderAll(Tail(xs), sep)

\* `r$` for a word r.
RxEndTrees == {RxSeq(<<RxWord(w), RxEnd>>) : w \in RxWords(MaxWord)}

\* One quantified literal, greedy or lazy.
RxLazyTrees == {RxRep(RxLit(c), q, lazy) : c \in RxLits, q \in {"*", "+", "?"},
                                           lazy \in BOOLEAN}

\* A quantified literal after a word and before a word, bare or in a group,
\* and as a branch of an alternation.
RxQuantTrees ==
    LET reps == {RxRep(RxLit(c), q, FALSE) : c \in RxLits, q \in {"*", "+", "?"}}
    IN {RxSeq(<<RxWord(p), x, RxWord(t)>>) :
            p \in RxWords(1), x \in reps \cup {RxGrp(y) : y \in reps}, t \in RxWords(1)}
       \cup {RxAlt(<<RxLit(c), x>>) : c \in RxLits, x \in reps}
       \cup {RxAlt(<<x, RxLit(c)>>) : c \in RxLits, x \in reps}

\* Two or three word branches at top level, two in a group after a literal.
RxAltTrees ==
    LET words == {RxWord(w) : w \in RxWords(MaxWord) \ {<<>>}}
    IN {RxAlt(<<x, y>>) : x \in words, y \in words}
       \cup {RxAlt(<<x, y, z>>) : x \in words, y \in words, z \in {RxWord(<<"a">>), RxWord(<<"b">>)}}
       \cup {RxSeq(<<RxLit(c), RxGrp(RxAlt(<<x, y>>))>>) :
                c \in RxLits, x \in words, y \in words}

RxSemPatterns ==
    {RxRender(r) : r \in RxEndTrees \cup RxLazyTrees \cup RxQuantTrees \cup RxAltTrees}

RxSemInputs == {<<>>, <<"a">>, <<"b">>, <<"a", "b">>, <<"b", "a">>, <<"a", "a", "a">>,
                <<"b", "a", "a">>, <<"a", "b", "b">>}

InitRegexSem ==
    /\ objs = <<Free>>
    /\ \E s \in RxSemInputs, p \in RxSemPatterns :
         regs = [s |-> StrV(s), p |-> StrV(p), f |-> StrV(<<>>), r |-> NoneV]
    /\ res = NoCall
    /\ prev = objs
    /\ log = <<>>

RegexMatch ==
    /\ Alive
    /\ Returns(regex_match_val(Release(objs, regs.r), regs.s, regs.p, regs.f),
               "regex_match", <<regs.s, regs.p, regs.f>>)
    /\ regs' = [regs EXCEPT !.r = NoneV]
    /\ UNCHANGED log

RegexSemFindAll ==
    /\ Alive
    /\ LET out == regex_find_all_val(Release(objs, regs.r), regs.s, regs.p, regs.f)
       IN /\ Returns(out, "regex_find_all", <<regs.s, regs.p, regs.f>>)
          /\ regs' = [regs EXCEPT !.r = IF out.ok THEN out.val ELSE NoneV]
    /\ UNCHANGED log

NextRegexSem == RegexMatch \/ RegexSemFindAll

SpecRegexSem == InitRegexSem /\ [][NextRegexSem]_vars

\* The standard meaning of a tree: the offsets at which a match of r that
\* starts at offset i of s can end.
RECURSIVE RxRefEnds(_, _, _)
RECURSIVE RxRefSeq(_, _, _)
RECURSIVE RxRefStar(_, _, _, _)
RxRefEnds(r, s, i) ==
    IF r.op = "lit" THEN (IF i < Len(s) /\ s[i + 1] = r.c THEN {i + 1} ELSE {})
    ELSE IF r.op = "end" THEN (IF i = Len(s) THEN {i} ELSE {})
    ELSE IF r.op = "seq" THEN RxRefSeq(r.xs, s, {i})
    ELSE IF r.op = "alt" THEN UNION {RxRefEnds(r.xs[k], s, i) : k \in 1..Len(r.xs)}
    ELSE IF r.op = "grp" THEN RxRefEnds(r.x, s, i)
    ELSE IF r.q = "?" THEN {i} \cup RxRefEnds(r.x, s, i)
    ELSE IF r.q = "*" THEN RxRefStar(r.x, s, {i}, Len(s) + 1)
    ELSE RxRefStar(r.x, s, RxRefEnds(r.x, s, i), Len(s) + 1)

RxRefSeq(xs, s, starts) ==
    IF xs = <<>> THEN starts
    ELSE RxRefSeq(Tail(xs), s, UNION {RxRefEnds(Head(xs), s, i) : i \in starts})

RxRefStar(x, s, ends, n) ==
    IF n = 0 THEN ends
    ELSE RxRefStar(x, s, ends \cup UNION {RxRefEnds(x, s, e) : e \in ends}, n - 1)

\* Some match of r exists in s.
RxRefMatches(r, s) == \E i \in 0..Len(s) : RxRefEnds(r, s, i) # {}

SetMin(S) == CHOOSE x \in S : \A y \in S : x <= y
SetMax(S) == CHOOSE x \in S : \A y \in S : x >= y

\* The non-empty matches of one quantified atom found from offset p on, left
\* to right: the longest at each offset when greedy, the one with the
\* fewest repetitions when lazy.
RECURSIVE RxRefFindAll(_, _, _)
RxRefFindAll(r, s, p) ==
    IF p > Len(s) THEN <<>>
    ELSE LET ends == RxRefEnds(r, s, p)
             e == IF ends = {} THEN p ELSE IF r.lazy THEN SetMin(ends) ELSE SetMax(ends)
         IN IF e > p THEN <<SubSeq(s, p + 1, e)>> \o RxRefFindAll(r, s, e)
            ELSE RxRefFindAll(r, s, p + 1)

\* C13: for a pattern `r$`, regex_match is true exactly when r matches
\* from some start offset up to the end of the input.
C13_EndAnchor ==
    Called("regex_match") =>
        \A r \in RxEndTrees :
            RxRender(r) = res.args[2].s =>
                res.ok /\ res.val = BoolV(RxRefMatches(r, res.args[1].s))

\* C14: regex_find_all under a greedy quantifier returns the longest match
\* at each offset, under its lazy form the match with the fewest
\* repetitions.
C14_GreedyLazy ==
    Called("regex_find_all") =>
        \A r \in RxLazyTrees :
            RxRender(r) = res.args[2].s =>
                res.ok /\ ReturnedStrings = RxRefFindAll(r, res.args[1].s, 0)

\* C15: a quantified atom keeps its standard meaning after other pattern
\* elements, inside a group and inside an alternation branch: regex_match
\* is true exactly when some substring is matched by the pattern.
C15_QuantifiedAtom ==
    Called("regex_match") =>
        \A r \in RxQuantTrees :
            RxRender(r) = res.args[2].s =>
                res.ok /\ res.val = BoolV(RxRefMatches(r, res.args[1].s))

\* C16: for an alternation of two or more branches, at top level or in a
\* group after other elements, regex_match is true exactly when some branch
\* matches at some offset, and every match regex_find_all returns is text
\* the pattern matches.
C16_Alternation ==
    \A r \in RxAltTrees :
        RxRender(r) = regs.p.s =>
            /\ Called("regex_match") =>
                  res.ok /\ res.val = BoolV(RxRefMatches(r, regs.s.s))
            /\ Called("regex_find_all") =>
                  /\ res.ok
                  /\ \A k \in 1..Len(ReturnedStrings) :
                        Len(ReturnedStrings[k]) \in RxRefEnds(r, ReturnedStrings[k], 0)

(***************************************************************************)
(* SpecDeque: one Deque under any interleaving of its operations.  log     *)
(* lists the successful pushes and pops in order.                          *)
(***************************************************************************)
MaxDeque == 3

DequeVals == {IntV(1), IntV(2)}

InitDeque ==
    /\ objs = deque_new(<<Free>>).objs
    /\ regs = [d |-> deque_new(<<Free>>).val]
    /\ res = NoCall
    /\ prev = objs
    /\ log = <<>>

Pushes == Len(SelectSeq(log, LAMBDA e : e = "push"))
Pops == Len(SelectSeq(log, LAMBDA e : e = "pop"))

DequePushBack ==
    /\ Pushes < MaxDeque
    /\ \E value \in DequeVals :
         Returns(deque_push_back(objs, regs.d, value), "deque_push_back", <<regs.d, value>>)
    /\ log' = Append(log, "push")
    /\ UNCHANGED regs

DequePushFront ==
    /\ Pushes < MaxDeque
    /\ \E value \in DequeVals :
         Returns(deque_push_front(objs, regs.d, value), "deque_push_front", <<regs.d, value>>)
    /\ log' = Append(log, "push")
    /\ UNCHANGED regs

DequePopFront ==
    /\ LET out == deque_pop_front(objs, regs.d)
       IN /\ Returns(out, "deque_pop_front", <<regs.d>>)
          /\ log' = IF out.ok THEN Append(log, "pop") ELSE log
    /\ UNCHANGED regs

DequePopBack ==
    /\ LET out == deque_pop_back(objs, regs.d)
       IN /\ Returns(out, "deque_pop_back", <<regs.d>>)
          /\ log' = IF out.ok THEN Append(log, "pop") ELSE log
    /\ UNCHANGED regs

DequeSize ==
    /\ Returns(deque_size(objs, regs.d), "deque_size", <<regs.d>>)
    /\ UNCHANGED <<regs, log>>

NextDeque == DequePushBack \/ DequePushFront \/ DequePopFront \/ DequePopBack \/ DequeSize

SpecDeque == InitDeque /\ [][NextDeque]_vars

\* C17: push_back adds at the back and push_front at the front; pop_front
\* removes and returns the front element and pop_back the back element,
\* each failing on an empty Deque; deque_size is the number of pushes minus
\* the number of successful pops.
C17_DequeEnds ==
    LET before == prev[regs.d.ref].items
        after == objs[regs.d.ref].items
    IN /\ Called("deque_push_back") => res.ok /\ after = before \o <<res.args[2]>>
       /\ Called("deque_push_front") => res.ok /\ after = <<res.args[2]>> \o before
       /\ Called("deque_pop_front") =>
             IF before = <<>> THEN ~res.ok /\ after = before
             ELSE res.ok /\ <<res.val>> \o after = before
       /\ Called("deque_pop_back") =>
             IF before = <<>> THEN ~res.ok /\ after = before
             ELSE res.ok /\ after \o <<res.val>> = before
       /\ Called("deque_size") => res.ok /\ res.val = IntV(Pushes - Pops) /\ after = before

\* pop_front returns what the latest of two push_fronts added, and pop_back
\* what the earlier one added.
C17_Witness ==
    /\ prev[1].items = <<IntV(2), IntV(1)>>
    /\ log = <<"push", "push", "pop">>
    /\ \/ Succeeded("deque_pop_front") /\ res.val = IntV(2) /\ objs[1].items = <<IntV(1)>>
       \/ Succeeded("deque_pop_back") /\ res.val = IntV(1) /\ objs[1].items = <<IntV(2)>>

\* C18: on a non-empty Heap heap_peek returns the value the next heap_pop
\* returns and leaves the heap (entries, size, insertion counter) as it
\* was, and heap_pop reduces heap_size by exactly 1; on an empty Heap both
\* fail.
C18_PeekThenPop ==
    LET before == prev[regs.h.ref]
        after == objs[regs.h.ref]
    IN /\ Called("heap_peek") =>
             /\ after = before
             /\ res.ok = (before.heap # {})
             /\ res.ok => \A out \in heap_pop(objs, regs.h) : out.ok /\ out.val = res.val
       /\ Called("heap_pop") =>
             /\ res.ok = (before.heap # {})
             /\ ~res.ok => after = before
             /\ res.ok => heap_size(objs, regs.h).val.n = heap_size(prev, regs.h).val.n - 1

\* A peek at a Heap of two entries, and the pop of one of two entries.
C18_Witness ==
    \/ /\ Succeeded("heap_peek") /\ Cardinality(objs[1].heap) = 2
       /\ \E e \in objs[1].heap : e.value = res.val /\ e.counter = 1
    \/ /\ Succeeded("heap_pop") /\ Cardinality(prev[1].heap) = 2
       /\ Cardinality(objs[1].heap) = 1

(***************************************************************************)
(* The two conversion paths: as_int / as_float and value_to_int /          *)
(* value_to_float.                                                         *)
(***************************************************************************)
\* n as f64 for an Int Value.
i64_as_f64(n) == IF HasField(n, "lit") THEN [t |-> "Float", lit |-> n.lit] ELSE to_numeric(n)

\* as_float: <<TRUE, Float Value>> or <<FALSE, Unit>> (panic).
as_float(v) ==
    IF v.t = "Int" THEN <<TRUE, i64_as_f64(v)>>
    ELSE IF v.t = "Float" THEN <<TRUE, v>>
    ELSE IF v.t = "Bool" THEN <<TRUE, IF v.b THEN FloatV(2) ELSE FloatV(0)>>
    ELSE IF v.t = "Str" THEN ParseF64(v.s)
    ELSE <<FALSE, Unit>>

\* A value_to_int that takes a Bool as as_int does.
value_to_int_with_bool(o, v) ==
    IF as_int(v)[1] THEN Ok(as_int(v)[2], o) ELSE Panic(o)

value_to_int(o, v) ==
    IF v.t = "Int" THEN Ok(v, o)
    ELSE IF v.t = "Float" THEN Ok(f64_as_i64(v), o)
    ELSE IF v.t = "Str" THEN (IF ParseI64(v.s)[1] THEN Ok(ParseI64(v.s)[2], o) ELSE Panic(o))
    ELSE Panic(o)

value_to_float(o, v) ==
    IF v.t = "Float" THEN Ok(v, o)
    ELSE IF v.t = "Int" THEN Ok(i64_as_f64(v), o)
    ELSE IF v.t = "Str" THEN (IF ParseF64(v.s)[1] THEN Ok(ParseF64(v.s)[2], o) ELSE Panic(o))
    ELSE Panic(o)

(***************************************************************************)
(* SpecConv: each of the four conversions applied to a value of any        *)
(* variant.                                                                *)
(***************************************************************************)
MaxConv == 4

ConvVals ==
    {NoneV, BoolV(TRUE), BoolV(FALSE), BigIntV(1), BigFloatV(2), HugeFloatV, InfV, NegInfV,
     NaNV, TupleV(<<>>), StrV(<<"1", "2">>), StrV(<<"-", "3">>), StrV(<<"1", ".", "5">>),
     StrV(<<"x">>), StrV(<<>>), StrV(<<"i", "n", "f">>)}
    \cup {IntV(n) : n \in (0 - MaxConv)..MaxConv}
    \cup {FloatV(h) : h \in (0 - 2 * MaxConv - 1)..(2 * MaxConv + 1)}

InitConv ==
    /\ objs = <<>>
    /\ \E v \in ConvVals : regs = [v |-> v]
    /\ res = NoCall
    /\ prev = objs
    /\ log = <<>>

AsInt ==
    /\ Returns(IF as_int(regs.v)[1] THEN Ok(as_int(regs.v)[2], objs) ELSE Panic(objs),
               "as_int", <<regs.v>>)
    /\ UNCHANGED <<regs, log>>

AsFloat ==
    /\ Returns(IF as_float(regs.v)[1] THEN Ok(as_float(regs.v)[2], objs) ELSE Panic(objs),
               "as_float", <<regs.v>>)
    /\ UNCHANGED <<regs, log>>

ValueToInt ==
    /\ Returns(value_to_int(objs, regs.v), "value_to_int", <<regs.v>>)
    /\ UNCHANGED <<regs, log>>

ValueToFloat ==
    /\ Returns(value_to_float(objs, regs.v), "value_to_float", <<regs.v>>)
    /\ UNCHANGED <<regs, log>>

NextConv == AsInt \/ AsFloat \/ ValueToInt \/ ValueToFloat

SpecConv == InitConv /\ [][NextConv]_vars

\* The Int that is the Float f with its fraction dropped; no Int when f is
\* not finite or its integer part is beyond the i64 range.
HasTruncation(f) == f.c = "fin" /\ ~HasField(f, "e")

Truncation(f) == IF HasField(f, "p53") THEN BigIntV(f.p53) ELSE IntV(TruncHalves(f.h))

\* What both paths agree on for Bool and Int: the legacy path takes a Bool
\* as 1 / 1.0 or 0 / 0.0, the strict path fails on it, and an Int converts
\* to itself.
BoolAndIntPaths ==
    LET v == regs.v
    IN /\ (Called("as_int") /\ v.t = "Bool") =>
              res.ok /\ res.val = IntV(IF v.b THEN 1 ELSE 0)
       /\ (Called("as_float") /\ v.t = "Bool") =>
              res.ok /\ res.val = FloatV(IF v.b THEN 2 ELSE 0)
       /\ (res.call \in {"value_to_int", "value_to_float"} /\ v.t = "Bool") => ~res.ok
       /\ (res.call \in {"as_int", "value_to_int"} /\ v.t = "Int") =>
              res.ok /\ res.val = v

\* C19 (as stated): the Bool and Int rules, and both paths truncate every
\* Float toward zero when converting to Int.
C19_ConversionPaths ==
    /\ BoolAndIntPaths
    /\ (res.call \in {"as_int", "value_to_int"} /\ regs.v.t = "Float") =>
           res.ok /\ HasTruncation(regs.v) /\ res.val = Truncation(regs.v)

\* C19 (amended): the Bool and Int rules; both paths truncate toward zero a
\* Float whose integer part an i64 holds, and otherwise return 0 for a NaN,
\* i64::MAX for a Float above the i64 range and i64::MIN for one below it.
C19_ConversionPathsSaturating ==
    /\ BoolAndIntPaths
    /\ (res.call \in {"as_int", "value_to_int"} /\ regs.v.t = "Float") =>
           /\ res.ok
           /\ res.val = (IF HasTruncation(regs.v) THEN Truncation(regs.v)
                         ELSE IF regs.v.c = "nan" THEN IntV(0)
                         ELSE IF regs.v.c = "ninf" THEN I64MinV
                         ELSE I64MaxV)

\* value_to_int has failed on a Bool that as_int takes, or either has
\* truncated -2.5 to -2, or has cast an infinite Float to i64::MAX.
C19_Witness ==
    \/ Failed("value_to_int") /\ regs.v = BoolV(TRUE) /\ as_int(regs.v) = <<TRUE, IntV(1)>>
    \/ Succeeded("as_int") /\ regs.v = FloatV(-5) /\ res.val = IntV(-2)
    \/ Succeeded("value_to_int") /\ regs.v = InfV /\ res.val = I64MaxV

\* A divisor that is numerically zero.
ZeroDivisor(b) == b \in {IntV(0), FloatV(0), BoolV(FALSE)}

\* C20: divide, floor_divide and modulo fail, returning no value, whenever
\* the divisor is numerically zero, for every numeric dividend; with a
\* nonzero numeric divisor divide returns a Float, also for two Ints.
C20_DivisionByZero ==
    (res.call \in {"divide", "floor_divide", "modulo"} /\ is_numeric(regs.a)) =>
        /\ ZeroDivisor(regs.b) => ~res.ok /\ res.val = Unit /\ objs = prev
        /\ (Called("divide") /\ is_numeric(regs.b) /\ ~ZeroDivisor(regs.b)) =>
               res.ok /\ res.val.t = "Float"

\* divide of an infinite Float by Bool false has failed, and divide of
\* Int 6 by Int 3 has returned Float 2.0.
C20_Witness ==
    \/ Failed("divide") /\ regs.a = InfV /\ regs.b = BoolV(FALSE)
    \/ Succeeded("divide") /\ regs.a = IntV(6) /\ regs.b = IntV(3) /\ res.val = FloatV(4)

(***************************************************************************)
(* Ordering comparisons: compare_values and the four operators.            *)
(***************************************************************************)
\* i64::cmp on two Int Values.
i64_cmp(x, y) ==
    IF HasField(x, "p53") /\ HasField(y, "p53") THEN IntCmp(x.p53, y.p53)
    ELSE IF HasField(x, "p53") THEN "Greater"
    ELSE IF HasField(y, "p53") THEN "Less"
    ELSE IntCmp(x.n, y.n)

\* partial_cmp(..).unwrap_or(Ordering::Equal)
f64_cmp_or_equal(x, y) ==
    IF f64_partial_cmp(x, y) = "None" THEN "Equal" ELSE f64_partial_cmp(x, y)

\* str::cmp: bytewise, which for UTF-8 is the order of the code points.
RECURSIVE str_cmp(_, _)
str_cmp(x, y) ==
    IF x = <<>> THEN (IF y = <<>> THEN "Equal" ELSE "Less")
    ELSE IF y = <<>> THEN "Greater"
    ELSE IF Head(x) # Head(y) THEN IntCmp(CodePoints[Head(x)], CodePoints[Head(y)])
    ELSE str_cmp(Tail(x), Tail(y))

\* A compare_values without the Bool arms.
compare_values_no_bool(a, b) ==
    IF a.t = "Int" /\ b.t = "Int" THEN i64_cmp(a, b)
    ELSE IF a.t = "Float" /\ b.t = "Float" THEN f64_cmp_or_equal(a, b)
    ELSE IF a.t = "Int" /\ b.t = "Float" THEN f64_cmp_or_equal(to_numeric(a), b)
    ELSE IF a.t = "Float" /\ b.t = "Int" THEN f64_cmp_or_equal(a, to_numeric(b))
    ELSE IF a.t = "Str" /\ b.t = "Str" THEN str_cmp(a.s, b.s)
    ELSE "Panic"

\* compare_values: "Less", "Equal", "Greater", or "Panic".  The Bool arms
\* call compare_values again with Int 0 / 1 in the Bool's place.
compare_values(a, b) ==
    IF a.t = "Int" /\ b.t = "Int" THEN i64_cmp(a, b)
    ELSE IF a.t = "Float" /\ b.t = "Float" THEN f64_cmp_or_equal(a, b)
    ELSE IF a.t = "Int" /\ b.t = "Float" THEN f64_cmp_or_equal(to_numeric(a), b)
    ELSE IF a.t = "Float" /\ b.t = "Int" THEN f64_cmp_or_equal(a, to_numeric(b))
    ELSE IF (a.t = "Bool" /\ is_numeric(b)) \/ (is_numeric(a) /\ b.t = "Bool")
         THEN compare_values_no_bool(BoolAsInt(a), BoolAsInt(b))
    ELSE IF a.t = "Str" /\ b.t = "Str" THEN str_cmp(a.s, b.s)
    ELSE "Panic"

op_less_than(o, a, b) ==
    IF compare_values(a, b) = "Panic" THEN Panic(o)
    ELSE Ok(BoolV(compare_values(a, b) = "Less"), o)

op_less_than_or_equal(o, a, b) ==
    IF compare_values(a, b) = "Panic" THEN Panic(o)
    ELSE Ok(BoolV(compare_values(a, b) # "Greater"), o)

op_greater_than(o, a, b) ==
    IF compare_values(a, b) = "Panic" THEN Panic(o)
    ELSE Ok(BoolV(compare_values(a, b) = "Greater"), o)

op_greater_than_or_equal(o, a, b) ==
    IF compare_values(a, b) = "Panic" THEN Panic(o)
    ELSE Ok(BoolV(compare_values(a, b) # "Less"), o)

(***************************************************************************)
(* SpecCmp: the four ordering operators on two operands of any variant.    *)
(***************************************************************************)
MaxCmp == 2

CmpVals == {NoneV, BoolV(TRUE), BoolV(FALSE), FloatV(1), FloatV(3), FloatV(-2), NaNV, InfV,
            BigIntV(1), BigFloatV(0), StrV(<<>>), StrV(<<"a">>), StrV(<<"a", "b">>),
            StrV(<<"B">>), StrV(<<"é">>), StrV(<<"1">>), TupleV(<<IntV(1)>>)}
           \cup {IntV(n) : n \in (0 - MaxCmp)..MaxCmp}
           \cup {Handle(EqTags[a], a) : a \in 1..6}

InitCmp ==
    /\ objs = EqStore
    /\ \E a \in CmpVals, b \in CmpVals : regs = [a |-> a, b |-> b]
    /\ res = NoCall
    /\ prev = objs
    /\ log = <<>>

OpLessThan ==
    /\ Returns(op_less_than(objs, regs.a, regs.b), "less_than", <<regs.a, regs.b>>)
    /\ UNCHANGED <<regs, log>>

OpLessThanOrEqual ==
    /\ Returns(op_less_than_or_equal(objs, regs.a, regs.b), "less_or_equal",
               <<regs.a, regs.b>>)
    /\ UNCHANGED <<regs, log>>

OpGreaterThan ==
    /\ Returns(op_greater_than(objs, regs.a, regs.b), "greater_than", <<regs.a, regs.b>>)
    /\ UNCHANGED <<regs, log>>

OpGreaterThanOrEqual ==
    /\ Returns(op_greater_than_or_equal(objs, regs.a, regs.b), "greater_or_equal",
               <<regs.a, regs.b>>)
    /\ UNCHANGED <<regs, log>>

NextCmp == OpLessThan \/ OpLessThanOrEqual \/ OpGreaterThan \/ OpGreaterThanOrEqual

SpecCmp == InitCmp /\ [][NextCmp]_vars

CmpCalls == {"less_than", "less_or_equal", "greater_than", "greater_or_equal"}

\* What the operator call answers when its left operand is below (-1),
\* equal to (0) or above (1) its right operand.
Answers(call, sign) ==
    IF call = "less_than" THEN sign < 0
    ELSE IF call = "less_or_equal" THEN sign <= 0
    ELSE IF call = "greater_than" THEN sign > 0
    ELSE sign >= 0

\* The lexicographic order of two strings by code point: -1, 0 or 1.
LexSign(x, y) ==
    LET below(u, v) ==
            \E k \in 1..(Len(v)) :
                /\ k <= Len(u) + 1
                /\ \A j \in 1..(k - 1) : u[j] = v[j]
                /\ k = Len(u) + 1 \/ CodePoints[u[k]] < CodePoints[v[k]]
    IN IF x = y THEN 0 ELSE IF below(x, y) THEN -1 ELSE 1

\* The numeric value of a small number in halves, a Bool counted as 0 / 1.
HalvesOf(v) == IF v.t = "Bool" THEN (IF v.b THEN 2 ELSE 0)
               ELSE IF v.t = "Int" THEN 2 * v.n ELSE v.h

IsSmall(v) == v.t = "Bool" \/ (v.t = "Int" /\ HasField(v, "n")) \/ (v.t = "Float" /\ IsHalves(v))

\* C21: the four ordering operators return a Bool exactly when both
\* operands are numeric (a Bool counted as 0 / 1) or both are Str (ordered
\* lexicographically by code point), and fail for every other pair.
C21_OrderingDomain ==
    res.call \in CmpCalls =>
        LET a == regs.a
            b == regs.b
        IN /\ res.ok = ((is_numeric(a) /\ is_numeric(b)) \/ (a.t = "Str" /\ b.t = "Str"))
           /\ res.ok => res.val.t = "Bool"
           /\ ~res.ok => objs = prev
           /\ (a.t = "Str" /\ b.t = "Str") =>
                  res.val = BoolV(Answers(res.call, LexSign(a.s, b.s)))
           /\ (IsSmall(a) /\ IsSmall(b)) =>
                  res.val = BoolV(Answers(res.call, Sign(HalvesOf(a) - HalvesOf(b))))

\* Bool true is not below Int 1 and is below Float 1.5; "B" is below "a";
\* Int 1 against Str "1" fails.
C21_Witness ==
    \/ Succeeded("less_than") /\ regs.a = BoolV(TRUE) /\ regs.b = FloatV(3)
       /\ res.val = BoolV(TRUE)
    \/ Succeeded("less_than") /\ regs.a = StrV(<<"B">>) /\ regs.b = StrV(<<"a">>)
       /\ res.val = BoolV(TRUE)
    \/ Failed("less_than") /\ regs.a = IntV(1) /\ regs.b = StrV(<<"1">>)

(***************************************************************************)
(* The callers of format_value: print, to_string, + and join.              *)
(***************************************************************************)
\* coreil_print: the line written to standard output.
coreil_print(o, args) ==
    Join([i \in 1..Len(args) |-> format_value(o, args[i])], <<" ">>)

to_string_value(o, v) == Ok(StrV(format_value(o, v)), o)

\* x + y on two f64 that are halves, infinities or NaN.
f64_add(x, y) ==
    IF x.c = "nan" \/ y.c = "nan" THEN NaNV
    ELSE IF x.c = "fin" /\ y.c = "fin" THEN FloatV(x.h + y.h)
    ELSE IF x.c = "fin" THEN y
    ELSE IF y.c = "fin" \/ x.c = y.c THEN x
    ELSE NaNV

\* numeric_result(a, b, |x, y| x + y, |x, y| x + y), for Ints whose sum is
\* within i64.
numeric_result_add(o, a, b) ==
    IF a.t \in {"Int", "Bool"} /\ b.t \in {"Int", "Bool"}
    THEN Ok(IntV(BoolAsInt(a).n + BoolAsInt(b).n), o)
    ELSE IF is_numeric(a) /\ is_numeric(b)
         THEN Ok(f64_add(to_numeric(a), to_numeric(b)), o)
    ELSE Panic(o)

\* An op_add whose Array arm extends and returns the left operand.
op_add_in_place(o, a, b) ==
    IF a.t = "Str" /\ b.t = "Str" THEN Ok(StrV(a.s \o b.s), o)
    ELSE IF a.t = "Str" THEN Ok(StrV(a.s \o format_value(o, b)), o)
    ELSE IF b.t = "Str" THEN Ok(StrV(format_value(o, a) \o b.s), o)
    ELSE IF a.t = "Array" /\ b.t = "Array"
         THEN Ok(a, [o EXCEPT ![a.ref] = ArrayPayload(o[a.ref].items \o o[b.ref].items)])
    ELSE numeric_result_add(o, a, b)

op_add(o, a, b) ==
    IF a.t = "Str" /\ b.t = "Str" THEN Ok(StrV(a.s \o b.s), o)
    ELSE IF a.t = "Str" THEN Ok(StrV(a.s \o format_value(o, b)), o)
    ELSE IF b.t = "Str" THEN Ok(StrV(format_value(o, a) \o b.s), o)
    ELSE IF a.t = "Array" /\ b.t = "Array"
         THEN make_array(o, o[a.ref].items \o o[b.ref].items)
    ELSE numeric_result_add(o, a, b)

string_join(o, separator, arr) ==
    IF separator.t # "Str" THEN Panic(o)
    ELSE IF arr.t # "Array" THEN Panic(o)
    ELSE Ok(StrV(Join([i \in 1..Len(o[arr.ref].items) |->
                         format_value(o, o[arr.ref].items[i])], separator.s)), o)

(***************************************************************************)
(* SpecFormat: print, to_string, + and join over values that hold strings  *)
(* at nesting depths 0 to 3.  log holds the line print wrote.              *)
(***************************************************************************)
FmtStore ==
    <<ArrayPayload(<<IntV(1), StrV(<<"a">>)>>),
      [k |-> "Map", entries |-> <<<<StrV(<<"k">>), Handle("Array", 1)>>>>,
       index |-> [x \in {<<"S", "1", ":", "k">>} |-> 0]],
      [k |-> "Set", items |-> <<StrV(<<"b">>), TupleV(<<StrV(<<"c">>)>>)>>,
       index |-> {serialize_value(<<>>, StrV(<<"b">>)),
                  serialize_value(<<>>, TupleV(<<StrV(<<"c">>)>>))}],
      [k |-> "Record", entries |-> <<<<StrV(<<"x">>), StrV(<<"y">>)>>>>,
       index |-> [x \in {<<"S", "1", ":", "x">>} |-> 0]],
      [k |-> "Deque", items |-> <<StrV(<<"d">>), Handle("Set", 6)>>],
      [k |-> "Set", items |-> <<>>, index |-> {}],
      [k |-> "Heap", heap |-> {[priority |-> FloatV(2), counter |-> 0, value |-> StrV(<<"h">>)]},
       counter |-> 1],
      ArrayPayload(<<Handle("Map", 2), Handle("Deque", 5), Handle("Record", 4)>>),
      ArrayPayload(<<>>),
      ArrayPayload(<<StrV(<<"a">>), StrV(<<>>), StrV(<<"a", " ", "b">>)>>),
      Free>>

FmtTags == <<"Array", "Map", "Set", "Record", "Deque", "Set", "Heap", "Array", "Array", "Array">>

FmtVals == {NoneV, BoolV(TRUE), IntV(-3), FloatV(3), FloatV(4), StrV(<<>>), StrV(<<"a">>),
            StrV(<<"a", " ", "b">>), StrV(<<",">>), TupleV(<<>>), TupleV(<<StrV(<<"a">>)>>),
            TupleV(<<IntV(1)>>), TupleV(<<StrV(<<"a">>), TupleV(<<StrV(<<"b">>)>>)>>),
            TupleV(<<Handle("Array", 1)>>)}
           \cup {Handle(FmtTags[a], a) : a \in 1..Len(FmtTags)}

InitFormat ==
    /\ objs = FmtStore
    /\ \E a \in FmtVals, b \in FmtVals : regs = [a |-> a, b |-> b]
    /\ res = NoCall
    /\ prev = objs
    /\ log = <<>>

CoreilPrint ==
    /\ Returns(Ok(Unit, objs), "print", <<regs.a, regs.b>>)
    /\ log' = <<coreil_print(objs, <<regs.a, regs.b>>)>>
    /\ UNCHANGED regs

ToStringValue ==
    /\ Returns(to_string_value(objs, regs.a), "to_string", <<regs.a>>)
    /\ UNCHANGED <<regs, log>>

OpAdd ==
    /\ FreeAddrs(objs) # {}
    /\ Returns(op_add(objs, regs.a, regs.b), "add", <<regs.a, regs.b>>)
    /\ UNCHANGED <<regs, log>>

StringJoin ==
    /\ Returns(string_join(objs, regs.a, regs.b), "join", <<regs.a, regs.b>>)
    /\ UNCHANGED <<regs, log>>

NextFormat == CoreilPrint \/ ToStringValue \/ OpAdd \/ StringJoin

SpecFormat == InitFormat /\ [][NextFormat]_vars

\* The strings held inside v as elements, keys or values, at every depth.
RECURSIVE NestedStrs(_, _)
NestedStrs(o, v) ==
    LET Inside(items) ==
            Flatten([i \in 1..Len(items) |->
                       IF items[i].t = "Str" THEN <<items[i].s>>
                       ELSE NestedStrs(o, items[i])])
    IN IF v.t = "Tuple" THEN Inside(v.items)
       ELSE IF v.t \in {"Array", "Set", "Deque"} THEN Inside(o[v.ref].items)
       ELSE IF v.t \in {"Map", "Record"}
            THEN Inside(Flatten([i \in 1..Len(o[v.ref].entries) |-> o[v.ref].entries[i]]))
       ELSE <<>>

IsInfix(part, text) ==
    \E i \in 0..(Len(text) - Len(part)) : SubSeq(text, i + 1, i + Len(part)) = part

QuoteCount(text) == Cardinality({i \in 1..Len(text) : text[i] = "'"})

\* text is a rendering of v as the claim describes it.
Renders(o, v, text) ==
    /\ v.t = "Str" => text = v.s
    /\ v.t # "Str" =>
           /\ QuoteCount(text) = 2 * Len(NestedStrs(o, v))
           /\ \A i \in 1..Len(NestedStrs(o, v)) :
                  IsInfix(<<"'">> \o NestedStrs(o, v)[i] \o <<"'">>, text)
    /\ v.t = "Tuple" =>
           /\ Head(text) = "(" /\ text[Len(text)] = ")"
           /\ (Len(v.items) = 1) = (text[Len(text) - 1] = ",")
    /\ v.t = "Set" /\ o[v.ref].items = <<>> => text = <<"s", "e", "t", "(", ")">>
    /\ v.t = "Set" /\ o[v.ref].items # <<>> => Head(text) = "{" /\ text[Len(text)] = "}"

\* C22: a Str formatted at top level (print, to_string, +, join) is
\* rendered raw, a Str inside an Array, Tuple, Map, Set, Record or Deque is
\* rendered in single quotes at every nesting depth, a Tuple of length 1
\* renders as (x,) and an empty Set as set().
C22_DisplayRepr ==
    LET a == regs.a
        b == regs.b
        text(v) == to_string_value(objs, v).val.s
    IN /\ Called("to_string") => res.ok /\ Renders(objs, a, res.val.s)
       /\ Called("print") =>
              /\ Renders(objs, a, text(a)) /\ Renders(objs, b, text(b))
              /\ log = <<text(a) \o <<" ">> \o text(b)>>
       /\ (Called("add") /\ a.t = "Str") =>
              /\ Renders(objs, b, text(b))
              /\ res = [call |-> "add", ok |-> TRUE, val |-> StrV(a.s \o text(b)),
                        args |-> <<a, b>>]
       /\ (Called("add") /\ b.t = "Str") =>
              /\ Renders(objs, a, text(a))
              /\ res = [call |-> "add", ok |-> TRUE, val |-> StrV(text(a) \o b.s),
                        args |-> <<a, b>>]
       /\ (Called("join") /\ a.t = "Str" /\ b.t = "Array") =>
              /\ \A i \in 1..Len(objs[b.ref].items) :
                     Renders(objs, objs[b.ref].items[i], text(objs[b.ref].items[i]))
              /\ res.ok
              /\ res.val = StrV(Join([i \in 1..Len(objs[b.ref].items) |->
                                        text(objs[b.ref].items[i])], a.s))
       /\ res.call \in {"to_string", "print", "join"} => objs = prev

\* to_string of [{'k': [1, 'a']}, deque(['d', set()]), {'x': 'y'}], and
\* "a" + ('a',).
C22_Witness ==
    \/ /\ Succeeded("to_string") /\ regs.a = Handle("Array", 8)
       /\ res.val.s = <<"[", "{", "'", "k", "'", ":", " ", "[", "1", ",", " ", "'", "a", "'",
                        "]", "}", ",", " ", "d", "e", "q", "u", "e", "(", "[", "'", "d", "'",
                        ",", " ", "s", "e", "t", "(", ")", "]", ")", ",", " ", "{", "'", "x",
                        "'", ":", " ", "'", "y", "'", "}", "]">>
    \/ /\ Succeeded("add") /\ regs.a = StrV(<<"a">>) /\ regs.b = TupleV(<<StrV(<<"a">>)>>)
       /\ res.val.s = <<"a", "(", "'", "a", "'", ",", ")">>

\* C23: for every value v built from None, Bool, Int, Float, Str, Array and
\* Map with Str keys, json_parse of the pretty serialization and json_parse
\* of the compact serialization both give a value, and values_equal holds
\* the two equal.
C23_PrettyCompactAgree ==
    (Called("json_parse") /\ regs.s = json_stringify_val(objs, regs.v, BoolV(TRUE)).val) =>
        LET room == objs \o [a \in 1..JsonAddrs |-> Free]
            compact == json_parse_val(room, json_stringify_val(objs, regs.v, BoolV(FALSE)).val)
        IN /\ res.ok
           /\ compact.ok
           /\ values_equal(compact.objs, res.val, compact.val)

(***************************************************************************)
(* SpecSerial: two keys a and b are put into a Map (address 1) and a Set   *)
(* (address 2).  The keys are None, Bool, Int, Str, and Tuples and Arrays  *)
(* of these, with strings that hold the delimiters of the encoding or      *)
(* look like the serialization of another value.  log lists the calls.     *)
(***************************************************************************)
MaxKeys == 2

SerStrings == {<<>>, <<"a">>, <<",">>, <<"1">>, <<"I", "1">>, <<"N">>, <<"B", "1">>,
               <<"S", "1", ":", "a">>, <<"1", ":", "a">>, <<"é">>, <<"a", "b">>,
               <<"I", "1", ",", "I", "1">>, <<"a", ",", "S", "1", ":", "b">>,
               <<"T", "(", ")">>, <<"A", "[", "]">>, <<")">>}

SerScalars == {NoneV, BoolV(TRUE), BoolV(FALSE), IntV(0), IntV(1), IntV(11), IntV(-1)}
              \cup {StrV(s) : s \in SerStrings}

SerItems == <<<<>>, <<IntV(1)>>, <<StrV(<<"I", "1">>)>>, <<IntV(1), IntV(1)>>,
              <<StrV(<<"I", "1", ",", "I", "1">>)>>, <<StrV(<<"a">>), StrV(<<"b">>)>>,
              <<StrV(<<"a", ",", "S", "1", ":", "b">>)>>, <<NoneV>>, <<StrV(<<>>)>>,
              <<TupleV(<<>>)>>, <<TupleV(<<IntV(1)>>)>>, <<StrV(<<"T", "(", ")">>)>>>>

\* Addresses 3 .. 2 + Len(SerItems) hold one Array per element of SerItems,
\* the next two an Array of an Array and a second Array [1].
SerStore ==
    [a \in 1..(Len(SerItems) + 4) |->
       IF a = 1 THEN [k |-> "Map", entries |-> <<>>, index |-> <<>>]
       ELSE IF a = 2 THEN [k |-> "Set", items |-> <<>>, index |-> {}]
       ELSE IF a <= Len(SerItems) + 2 THEN ArrayPayload(SerItems[a - 2])
       ELSE IF a = Len(SerItems) + 3 THEN ArrayPayload(<<Handle("Array", 4)>>)
       ELSE ArrayPayload(<<IntV(1)>>)]

SerVals == SerScalars \cup {TupleV(SerItems[i]) : i \in 1..Len(SerItems)}
           \cup {Handle("Array", a) : a \in 3..Len(SerStore)}

InitSerial ==
    /\ objs = SerStore
    /\ \E a \in SerVals, b \in SerVals : regs = [a |-> a, b |-> b]
    /\ res = NoCall
    /\ prev = objs
    /\ log = <<>>

SerMapSet ==
    /\ Len(log) < MaxKeys
    /\ \E key \in {regs.a, regs.b} :
         /\ Returns(map_set(objs, Handle("Map", 1), key, IntV(Len(log))), "map_set",
                    <<Handle("Map", 1), key, IntV(Len(log))>>)
         /\ log' = Append(log, [call |-> "map_set", key |-> key])
    /\ UNCHANGED regs

SerSetAdd ==
    /\ Len(log) < MaxKeys
    /\ \E key \in {regs.a, regs.b} :
         /\ Returns(set_add(objs, Handle("Set", 2), key), "set_add", <<Handle("Set", 2), key>>)
         /\ log' = Append(log, [call |-> "set_add", key |-> key])
    /\ UNCHANGED regs

NextSerial == SerMapSet \/ SerSetAdd

SpecSerial == InitSerial /\ [][NextSerial]_vars

\* The variant and content of a value: an Array handle is replaced by the
\* contents of the Array it refers to.
RECURSIVE Content(_, _)
Content(o, v) ==
    IF v.t = "Tuple" THEN [t |-> "Tuple", items |-> [i \in 1..Len(v.items) |->
                                                      Content(o, v.items[i])]]
    ELSE IF v.t = "Array" THEN [t |-> "Array", items |-> [i \in 1..Len(o[v.ref].items) |->
                                                           Content(o, o[v.ref].items[i])]]
    ELSE v

KeysPut(call) == {log[i].key : i \in {j \in 1..Len(log) : log[j].call = call}}

\* C24: two values built from None, Bool, Int, Str, Tuple and Array have
\* the same serialization only if they have the same variant and content,
\* so a Map holds one entry and a Set one item per different key.
C24_SerializeInjective ==
    /\ (serialize_value(objs, regs.a) = serialize_value(objs, regs.b))
           = (Content(objs, regs.a) = Content(objs, regs.b))
    /\ Len(objs[1].entries) = Cardinality({Content(objs, k) : k \in KeysPut("map_set")})
    /\ Len(objs[2].items) = Cardinality({Content(objs, k) : k \in KeysPut("set_add")})

\* The Tuples ("a", "b") and ("a,S1:b",) are two keys of one Map.
C24_Witness ==
    /\ regs.a = TupleV(<<StrV(<<"a">>), StrV(<<"b">>)>>)
    /\ regs.b = TupleV(<<StrV(<<"a", ",", "S", "1", ":", "b">>)>>)
    /\ KeysPut("map_set") = {regs.a, regs.b}
    /\ Len(objs[1].entries) = 2

(***************************************************************************)
(* SpecFresh: an Array is built from the Arrays a1 (address 1) and a2      *)
(* (address 2) or the Map m (address 3) by +, array_slice or map_keys and  *)
(* kept in r; Arrays and Map are mutated before and after.  log lists the  *)
(* mutations.                                                              *)
(***************************************************************************)
MaxMut == 2

FreshItems == {<<>>, <<IntV(1)>>, <<IntV(1), IntV(2)>>}

FreshEntries == {<<>>, <<<<StrV(<<"a">>), IntV(1)>>>>,
                 <<<<StrV(<<"b">>), IntV(1)>>, <<StrV(<<"a">>), IntV(2)>>>>}

InitFresh ==
    /\ \E i1 \in FreshItems, i2 \in FreshItems, entries \in FreshEntries :
         objs = <<ArrayPayload(i1), ArrayPayload(i2),
                  [k |-> "Map", entries |-> entries,
                   index |-> [x \in {serialize_value(<<>>, entries[i][1]) :
                                       i \in 1..Len(entries)} |->
                                (CHOOSE i \in 1..Len(entries) :
                                     serialize_value(<<>>, entries[i][1]) = x) - 1]],
                  Free>>
    /\ regs = [a1 |-> Handle("Array", 1), a2 |-> Handle("Array", 2), m |-> Handle("Map", 3),
               r |-> NoneV]
    /\ res = NoCall
    /\ prev = objs
    /\ log = <<>>

\* The Arrays the program holds.
FreshArrays == {regs.a1, regs.a2} \cup (IF regs.r = NoneV THEN {} ELSE {regs.r})

FreshAdd ==
    /\ regs.r = NoneV
    /\ \E x \in {regs.a1, regs.a2}, y \in {regs.a1, regs.a2} :
         LET out == op_add(objs, x, y)
         IN /\ Returns(out, "add", <<x, y>>)
            /\ regs' = [regs EXCEPT !.r = out.val]
    /\ UNCHANGED log

FreshSlice ==
    /\ regs.r = NoneV
    /\ \E start \in {IntV(0), IntV(1)}, end \in {IntV(1), IntV(2), IntV(-1)} :
         LET out == array_slice(objs, regs.a1, start, end)
         IN /\ Returns(out, "array_slice", <<regs.a1, start, end>>)
            /\ regs' = [regs EXCEPT !.r = out.val]
    /\ UNCHANGED log

FreshMapKeys ==
    /\ regs.r = NoneV
    /\ LET out == map_keys(objs, regs.m)
       IN /\ Returns(out, "map_keys", <<regs.m>>)
          /\ regs' = [regs EXCEPT !.r = out.val]
    /\ UNCHANGED log

FreshPush ==
    /\ Len(log) < MaxMut
    /\ \E arr \in FreshArrays :
         Returns(array_push(objs, arr, IntV(9)), "array_push", <<arr, IntV(9)>>)
    /\ log' = Append(log, "array_push")
    /\ UNCHANGED regs

FreshSetIndex ==
    /\ Len(log) < MaxMut
    /\ \E arr \in FreshArrays, index \in {IntV(0), IntV(-1)} :
         Returns(array_set_index(objs, arr, index, IntV(8)), "array_set_index",
                 <<arr, index, IntV(8)>>)
    /\ log' = Append(log, "array_set_index")
    /\ UNCHANGED regs

FreshMapSet ==
    /\ Len(log) < MaxMut
    /\ \E key \in {StrV(<<"a">>), StrV(<<"c">>)} :
         Returns(map_set(objs, regs.m, key, IntV(7)), "map_set", <<regs.m, key, IntV(7)>>)
    /\ log' = Append(log, "map_set")
    /\ UNCHANGED regs

NextFresh == FreshAdd \/ FreshSlice \/ FreshMapKeys \/ FreshPush \/ FreshSetIndex \/ FreshMapSet

SpecFresh == InitFresh /\ [][NextFresh]_vars

\* Every payload but the one at address a is as it was before the call.
OnlyChanged(a) == \A x \in DOMAIN objs : x # a => objs[x] = prev[x]

\* C25: the Array returned by + on two Arrays, by array_slice and by
\* map_keys is at a fresh address and holds the concatenation, the slice or
\* the keys, and the inputs are unchanged; an array_push or
\* array_set_index changes the payload of the Array it is called on and no
\* other, and a map_set changes the Map only.
C25_FreshArrays ==
    /\ res.call \in {"add", "array_slice", "map_keys"} =>
           /\ res.ok /\ res.val.t = "Array" /\ regs.r = res.val
           /\ prev[res.val.ref] = Free
           /\ OnlyChanged(res.val.ref)
    /\ Called("add") =>
           objs[regs.r.ref].items = objs[res.args[1].ref].items \o objs[res.args[2].ref].items
    /\ Called("map_keys") =>
           objs[regs.r.ref].items = [i \in 1..Len(objs[3].entries) |-> objs[3].entries[i][1]]
    /\ res.call \in {"array_push", "array_set_index"} => OnlyChanged(res.args[1].ref)
    /\ Called("map_set") => OnlyChanged(regs.m.ref)
    /\ regs.r # NoneV => regs.r.ref \notin {regs.a1.ref, regs.a2.ref, regs.m.ref}

\* r = a1 + a1 was built from [1], then 9 was pushed to r and to a1.
C25_Witness ==
    /\ Succeeded("array_push") /\ res.args[1] = regs.a1
    /\ regs.r # NoneV
    /\ objs[1].items = <<IntV(1), IntV(9)>>
    /\ objs[regs.r.ref].items = <<IntV(1), IntV(1), IntV(9)>>

\* C26: regex execution returns for every pattern and every input, also
\* for programs with epsilon cycles: no regex_match and no regex_find_all
\* ends the process in rx_add_thread.
C26_RegexTerminates ==
    res.call \in {"regex_match", "regex_find_all"} =>
        Alive

\* C28: in every reachable state the index of a Set is exactly the set of
\* the serializations of its items, the items have pairwise different
\* serializations, set_size is the number of keys set_has answers true
\* for, and a set_remove removes at most one item; also for a Set holding
\* Arrays that are mutated through their own handles.
C28_SetIndexAgrees ==
    LET items == objs[regs.s.ref].items
        index == objs[regs.s.ref].index
    IN /\ index = {serialize_value(objs, items[i]) : i \in 1..Len(items)}
       /\ \A i, j \in 1..Len(items) :
              i # j => serialize_value(objs, items[i]) # serialize_value(objs, items[j])
       /\ set_size(objs, regs.s).val = IntV(Cardinality(index))
       /\ Succeeded("set_remove") =>
              Len(prev[regs.s.ref].items) - Len(items) \in {0, 1}

(***************************************************************************)
(* SpecMapKeys: one Map (address 1) and two Arrays, a1 = [1] and a2 = [2]. *)
(* The program sets the keys Int 1, a1 and a2, reads the Map, and writes   *)
(* to the Arrays through its own handles a1 and a2.                        *)
(***************************************************************************)
KeyVals == {IntV(1), regs.a1, regs.a2}

InitMapKeys ==
    /\ objs = <<OrderedMap_new("Map"), ArrayPayload(<<IntV(1)>>), ArrayPayload(<<IntV(2)>>),
                Free>>
    /\ regs = [m |-> Handle("Map", 1), a1 |-> Handle("Array", 2), a2 |-> Handle("Array", 3),
               r |-> NoneV]
    /\ res = NoCall
    /\ prev = objs
    /\ log = <<>>

KeyMapSet ==
    /\ Len(objs[1].entries) < MaxItems
    /\ \E key \in KeyVals, value \in ElemVals :
         Returns(map_set(objs, regs.m, key, value), "map_set", <<regs.m, key, value>>)
    /\ UNCHANGED <<regs, log>>

KeyMapGet ==
    /\ \E key \in KeyVals : Returns(map_get(objs, regs.m, key), "map_get", <<regs.m, key>>)
    /\ UNCHANGED <<regs, log>>

KeyMapContains ==
    /\ \E key \in KeyVals :
         Returns(map_contains(objs, regs.m, key), "map_contains", <<regs.m, key>>)
    /\ UNCHANGED <<regs, log>>

KeyMapKeys ==
    /\ LET out == map_keys(Release(objs, regs.r), regs.m)
       IN /\ Returns(out, "map_keys", <<regs.m>>)
          /\ regs' = [regs EXCEPT !.r = out.val]
    /\ UNCHANGED log

KeyArraySetIndex ==
    /\ \E a \in {regs.a1, regs.a2}, v \in ElemVals :
         Returns(array_set_index(objs, a, IntV(0), v), "array_set_index", <<a, IntV(0), v>>)
    /\ UNCHANGED <<regs, log>>

KeyArrayPush ==
    /\ \E a \in {regs.a1, regs.a2}, v \in ElemVals :
         /\ Len(objs[a.ref].items) < MaxLen
         /\ Returns(array_push(objs, a, v), "array_push", <<a, v>>)
    /\ UNCHANGED <<regs, log>>

NextMapKeys ==
    KeyMapSet \/ KeyMapGet \/ KeyMapContains \/ KeyMapKeys \/ KeyArraySetIndex \/ KeyArrayPush

SpecMapKeys == InitMapKeys /\ [][NextMapKeys]_vars

\* C27: in every reachable state every key k of map_keys(m) satisfies
\* map_contains(m, k), and map_get(m, k) returns the value of the entry of
\* k; also for a Map whose keys are Arrays that are mutated through their
\* own handles.
C27_MapIndexAgrees ==
    LET entries == objs[regs.m.ref].entries
        keys == map_keys(Release(objs, regs.r), regs.m)
    IN /\ keys.ok
       /\ keys.objs[keys.val.ref].items = [i \in 1..Len(entries) |-> entries[i][1]]
       /\ \A i \in 1..Len(entries) :
              /\ map_contains(objs, regs.m, entries[i][1]) = Ok(BoolV(TRUE), objs)
              /\ map_get(objs, regs.m, entries[i][1]) = Ok(entries[i][2], objs)

(***************************************************************************)
(* regex_replace.                                                          *)
(***************************************************************************)
\* The loop of rx_replace_all from position p on: [ok, result].
RECURSIVE rx_replace_from(_, _, _, _, _, _)
rx_replace_from(insts, chars, repl, ci, p, result) ==
    IF ~(p < Len(chars)) THEN [ok |-> TRUE, result |-> result]
    ELSE LET m == rx_match_at(insts, chars, p, ci)
         IN IF ~m.ok THEN [ok |-> FALSE, result |-> result]
            ELSE IF m.best # <<>> /\ m.best[1] > p
                 THEN rx_replace_from(insts, chars, repl, ci, m.best[1], result \o repl)
            ELSE rx_replace_from(insts, chars, repl, ci, p + 1, Append(result, chars[p + 1]))

\* A replace loop that goes on one character after the start of a match.
RECURSIVE rx_replace_overlapping_from(_, _, _, _, _, _)
rx_replace_overlapping_from(insts, chars, repl, ci, p, result) ==
    IF ~(p < Len(chars)) THEN [ok |-> TRUE, result |-> result]
    ELSE LET m == rx_match_at(insts, chars, p, ci)
         IN IF ~m.ok THEN [ok |-> FALSE, result |-> result]
            ELSE IF m.best # <<>> /\ m.best[1] > p
                 THEN rx_replace_overlapping_from(insts, chars, repl, ci, p + 1, result \o repl)
            ELSE rx_replace_overlapping_from(insts, chars, repl, ci, p + 1,
                                             Append(result, chars[p + 1]))

rx_replace_all_overlapping(insts, input, repl, ci) ==
    rx_replace_overlapping_from(insts, input, repl, ci, 0, <<>>)

rx_replace_all(insts, input, repl, ci) == rx_replace_from(insts, input, repl, ci, 0, <<>>)

regex_replace_val(o, string, pattern, replacement, flags) ==
    IF string.t # "Str" \/ pattern.t # "Str" \/ replacement.t # "Str" THEN Panic(o)
    ELSE LET ci == rx_get_flags(flags)
             c == rx_compile(pattern.s, ci)
         IN IF ~c[1] THEN Panic(o)
            ELSE IF ~rx_replace_all(c[2], string.s, replacement.s, ci).ok THEN Abort(o)
            ELSE Ok(StrV(rx_replace_all(c[2], string.s, replacement.s, ci).result), o)

(***************************************************************************)
(* SpecReplace: regex_replace and regex_split of an input s under a        *)
(* pattern p, flags f and a replacement t.                                 *)
(***************************************************************************)
RxReplacePatterns ==
    RxSemPatterns
    \cup {<<".">>, <<"[", "a", "-", "b", "]", "+">>, <<"\\", "w", "+">>, <<"^", "a">>,
          <<"a", "\\">>, <<"(", "a", "|", "b", ")", "*">>, <<"(", "a">>, <<"a", "a">>}

RxReplaceInputs == {<<>>, <<"a">>, <<"a", "b">>, <<"b", "a">>, <<"b", "a", "a">>,
                    <<"A", "b">>, <<"a", "a", "a", "a">>}

RxReplacements == {<<>>, <<"a">>, <<"$", "1">>}

InitReplace ==
    /\ objs = <<Free>>
    /\ \E s \in RxReplaceInputs, p \in RxReplacePatterns, f \in RxFlags, t \in RxReplacements :
         regs = [s |-> StrV(s), p |-> StrV(p), f |-> f, t |-> StrV(t), r |-> NoneV]
    /\ res = NoCall
    /\ prev = objs
    /\ log = <<>>

RegexReplace ==
    /\ Alive
    /\ Returns(regex_replace_val(Release(objs, regs.r), regs.s, regs.p, regs.t, regs.f),
               "regex_replace", <<regs.s, regs.p, regs.t, regs.f>>)
    /\ regs' = [regs EXCEPT !.r = NoneV]
    /\ UNCHANGED log

NextReplace == RegexReplace \/ RegexSplit

SpecReplace == InitReplace /\ [][NextReplace]_vars

ReadItems == {<<>>, <<IntV(1), StrV(<<"a">>)>>, <<IntV(1), IntV(2), IntV(3)>>}

ReadKeys == {StrV(<<"a">>), IntV(2), StrV(<<"z">>)}

ReadDefaults == {NoneV, IntV(0)}

ReadIndexes == {IntV(0), IntV(-1), IntV(5)}

\* The store after the program has built its containers.
ReadStore(items, n) ==
    LET s0 == <<ArrayPayload(items), OrderedMap_new("Map"), OrderedSet_new,
                [k |-> "Deque", items |-> items], CoreILHeap_new, Free>>
        s1 == IF n >= 1 THEN map_set(s0, Handle("Map", 2), StrV(<<"a">>), IntV(1)).objs ELSE s0
        s2 == IF n >= 2 THEN map_set(s1, Handle("Map", 2), IntV(2), StrV(<<"b">>)).objs ELSE s1
        s3 == IF n >= 1 THEN set_add(s2, Handle("Set", 3), IntV(2)).objs ELSE s2
        s4 == IF n >= 2 THEN set_add(s3, Handle("Set", 3), StrV(<<"a">>)).objs ELSE s3
        s5 == IF n >= 1 THEN heap_push(s4, Handle("Heap", 5), IntV(n), StrV(<<"a">>)).objs
              ELSE s4
    IN s5

InitRead ==
    /\ \E items \in ReadItems, n \in 0..2 : objs = ReadStore(items, n)
    /\ regs = [a |-> Handle("Array", 1), m |-> Handle("Map", 2), s |-> Handle("Set", 3),
               d |-> Handle("Deque", 4), h |-> Handle("Heap", 5), r |-> NoneV]
    /\ res = NoCall
    /\ prev = objs
    /\ log = <<>>

\* A call that returns no container.
Read(out, call, args) ==
    /\ Returns(out, call, args)
    /\ regs' = [regs EXCEPT !.r = NoneV]
    /\ UNCHANGED log

\* A call that returns an Array, kept in r.
ReadArray(out, call, args) ==
    /\ Returns(out, call, args)
    /\ regs' = [regs EXCEPT !.r = IF out.ok THEN out.val ELSE NoneV]
    /\ UNCHANGED log

ReadMapGet ==
    \E key \in ReadKeys :
        Read(map_get(Release(objs, regs.r), regs.m, key), "map_get", <<regs.m, key>>)

ReadMapGetDefault ==
    \E key \in ReadKeys, default \in ReadDefaults :
        Read(map_get_default(Release(objs, regs.r), regs.m, key, default), "map_get_default",
             <<regs.m, key, default>>)

ReadMapContains ==
    \E key \in ReadKeys :
        Read(map_contains(Release(objs, regs.r), regs.m, key), "map_contains", <<regs.m, key>>)

ReadMapKeys == ReadArray(map_keys(Release(objs, regs.r), regs.m), "map_keys", <<regs.m>>)

ReadSetHas ==
    \E item \in ReadKeys :
        Read(set_has(Release(objs, regs.r), regs.s, item), "set_has", <<regs.s, item>>)

ReadSetSize == Read(set_size(Release(objs, regs.r), regs.s), "set_size", <<regs.s>>)

ReadArrayIndex ==
    \E index \in ReadIndexes :
        Read(array_index(Release(objs, regs.r), regs.a, index), "array_index",
             <<regs.a, index>>)

ReadArrayLength ==
    \E v \in {regs.a, regs.m} :
        Read(array_length(Release(objs, regs.r), v), "array_length", <<v>>)

ReadArraySlice ==
    \E start \in ReadIndexes, end \in ReadIndexes :
        ReadArray(array_slice(Release(objs, regs.r), regs.a, start, end), "array_slice",
                  <<regs.a, start, end>>)

ReadDequeSize == Read(deque_size(Release(objs, regs.r), regs.d), "deque_size", <<regs.d>>)

ReadHeapSize == Read(heap_size(Release(objs, regs.r), regs.h), "heap_size", <<regs.h>>)

NextRead ==
    \/ ReadMapGet \/ ReadMapGetDefault \/ ReadMapContains \/ ReadMapKeys
    \/ ReadSetHas \/ ReadSetSize
    \/ ReadArrayIndex \/ ReadArrayLength \/ ReadArraySlice
    \/ ReadDequeSize \/ ReadHeapSize

SpecRead == InitRead /\ [][NextRead]_vars

ReadOps == {"map_get", "map_get_default", "map_contains", "map_keys", "set_has", "set_size",
            "array_index", "array_length", "array_slice", "deque_size", "heap_size"}

\* C30: the read operations leave every container of the program as it
\* was; map_get_default with a missing key returns the default and does not
\* insert the key: map_contains of it is still false and the keys are the
\* same.
C30_ReadsLeaveContainers ==
    res.call \in ReadOps =>
        /\ \A a \in 1..5 : objs[a] = prev[a]
        /\ (/\ Called("map_get_default")
            /\ \A i \in 1..Len(prev[2].entries) : prev[2].entries[i][1] # res.args[2]) =>
               /\ res.ok /\ res.val = res.args[3]
               /\ map_contains(objs, regs.m, res.args[2]).val = BoolV(FALSE)
               /\ OrderedMap_keys(objs[2]) = OrderedMap_keys(prev[2])

\* map_get_default(m, "z", 0) on the Map {"a": 1, 2: "b"} returned 0.
C30_Witness ==
    /\ Succeeded("map_get_default")
    /\ res.args[2] = StrV(<<"z">>) /\ res.val = IntV(0)
    /\ OrderedMap_keys(objs[2]) = <<StrV(<<"a">>), IntV(2)>>

====
